---- MODULE Spec2Model ----
(***************************************************************************)
(* Model of sphinx_metadata_figure: the figure directive's metadata        *)
(* resolution, the page-default store and its build lifecycle, and the     *)
(* generated-bibliography writer.                                          *)
(*                                                                         *)
(* Text is modelled as a sequence of tokens (each token a TLA+ string):    *)
(* "CC-BY" is <<"CC", "-", "BY">>, "2024-03-05" is                          *)
(* <<"2024", "-", "03", "-", "05">>.  A Python dict is a function whose     *)
(* domain is the set of keys present.  An optional value (None or a        *)
(* string) is a record [some, v].                                          *)
(***************************************************************************)
EXTENDS Naturals, Sequences, FiniteSets, TLC

VARIABLES
  config,         \* conf.py: metadata_figure_settings, author, copyright, language
  today,          \* the clock: datetime.today() formatted %Y-%m-%d
  bib_content,    \* text of the project's .bib files, as _load_bib_files returns it
  page_defaults,  \* env.metadata_figure_page_defaults: docname -> options
  docname,        \* env.docname: the document being read, NoDoc between documents
  toread,         \* documents of the current build still to be read
  builds,         \* number of builds started
  ndirectives,    \* default-metadata-page directives executed in the current read
  doctree,        \* per document, the figure nodes its last read produced
  last,           \* the last MetadataFigure.run call: its inputs and its outcome
  stored,         \* history: per document, the options its directives stored in the
                  \* current read (now) and in the read before it (before)
  out_file,       \* the generated .bib file: [exists, text]
  wlog,           \* history: the _write_bib_entry calls made, in order, or the
                  \* iterations of the loop of the last generation pass
  resolved,       \* per document: the doctree-resolved passes made over its doctree,
                  \* the doctree they left and the environment's serial number
  writers         \* the _write_bib_entry calls in progress in concurrent builds:
                  \* per writer its arguments, its position and what it has read

vars == <<config, today, bib_content, page_defaults, docname, toread, builds,
          ndirectives, doctree, last, stored, out_file, wlog, resolved, writers>>

----------------------------------------------------------------------------
(* Python values *)

None == [some |-> FALSE, v |-> <<>>]
Some(s) == [some |-> TRUE, v |-> s]

\* bool(x) of an optional string: None and "" are falsy
Truthy(x) == x.some /\ x.v # <<>>

\* x or y
Or(x, y) == IF Truthy(x) THEN x ELSE y

\* d.get(k, None)
Get(d, k) == IF k \in DOMAIN d THEN Some(d[k]) ELSE None

\* d | u  (dict union, right operand wins)
DictUnion(d, u) ==
  [k \in (DOMAIN d) \cup (DOMAIN u) |-> IF k \in DOMAIN u THEN u[k] ELSE d[k]]

EmptyDict == [k \in {} |-> <<>>]

\* s.startswith(p)
StartsWith(s, p) == Len(s) >= Len(p) /\ SubSeq(s, 1, Len(p)) = p

\* s.endswith(p)
EndsWith(s, p) == Len(s) >= Len(p) /\ SubSeq(s, Len(s) - Len(p) + 1, Len(s)) = p

----------------------------------------------------------------------------
(* License registry *)

VALID_LICENSES ==
  { <<"CC", "0">>,
    <<"CC", "-", "BY">>,
    <<"CC", "-", "BY", "-", "SA">>,
    <<"CC", "-", "BY", "-", "NC">>,
    <<"CC", "-", "BY", "-", "NC", "-", "SA">>,
    <<"CC", "-", "BY", "-", "ND">>,
    <<"CC", "-", "BY", "-", "NC", "-", "ND">>,
    <<"CC", " ", "BY">>,
    <<"CC", " ", "BY", "-", "SA">>,
    <<"CC", " ", "BY", "-", "NC">>,
    <<"CC", " ", "BY", "-", "NC", "-", "SA">>,
    <<"CC", " ", "BY", "-", "ND">>,
    <<"CC", " ", "BY", "-", "NC", "-", "ND">>,
    <<"CC", " ", "BY", " ", "4.0">>,
    <<"CC", " ", "BY", "-", "SA", " ", "4.0">>,
    <<"CC", " ", "BY", "-", "NC", " ", "4.0">>,
    <<"CC", " ", "BY", "-", "NC", "-", "SA", " ", "4.0">>,
    <<"CC", " ", "BY", "-", "ND", " ", "4.0">>,
    <<"CC", " ", "BY", "-", "NC", "-", "ND", " ", "4.0">>,
    <<"CC", " ", "BY", " ", "3.0">>,
    <<"CC", " ", "BY", "-", "SA", " ", "3.0">>,
    <<"CC", " ", "BY", "-", "NC", " ", "3.0">>,
    <<"CC", " ", "BY", "-", "NC", "-", "SA", " ", "3.0">>,
    <<"CC", " ", "BY", "-", "ND", " ", "3.0">>,
    <<"CC", " ", "BY", "-", "NC", "-", "ND", " ", "3.0">>,
    <<"CC", " ", "BY", " ", "2.5">>,
    <<"CC", " ", "BY", "-", "SA", " ", "2.5">>,
    <<"CC", " ", "BY", "-", "NC", " ", "2.5">>,
    <<"CC", " ", "BY", "-", "NC", "-", "SA", " ", "2.5">>,
    <<"CC", " ", "BY", "-", "ND", " ", "2.5">>,
    <<"CC", " ", "BY", "-", "NC", "-", "ND", " ", "2.5">>,
    <<"CC", " ", "BY", " ", "2.0">>,
    <<"CC", " ", "BY", "-", "SA", " ", "2.0">>,
    <<"CC", " ", "BY", "-", "NC", " ", "2.0">>,
    <<"CC", " ", "BY", "-", "NC", "-", "SA", " ", "2.0">>,
    <<"CC", " ", "BY", "-", "ND", " ", "2.0">>,
    <<"CC", " ", "BY", "-", "NC", "-", "ND", " ", "2.0">>,
    <<"CC", " ", "BY", " ", "1.0">>,
    <<"CC", " ", "BY", "-", "SA", " ", "1.0">>,
    <<"CC", " ", "BY", "-", "NC", " ", "1.0">>,
    <<"CC", " ", "BY", "-", "NC", "-", "SA", " ", "1.0">>,
    <<"CC", " ", "BY", "-", "ND", " ", "1.0">>,
    <<"CC", " ", "BY", "-", "NC", "-", "ND", " ", "1.0">>,
    <<"Public", " ", "Domain">>,
    <<"MIT">>,
    <<"Apache", "-", "2.0">>,
    <<"GPL", "-", "3.0">>,
    <<"BSD", "-", "3", "-", "Clause">>,
    <<"Proprietary">>,
    <<"All", " ", "Rights", " ", "Reserved">>,
    <<"Pixabay", " ", "License">>,
    <<"Unsplash", " ", "License">>,
    <<"Pexels", " ", "License">>,
    <<"Vecteezy", " ", "Free", " ", "License">> }

LICENSE_URLS ==
  { <<<<"CC", "0">>, "https://creativecommons.org/publicdomain/zero/1.0/">>,
    <<<<"CC", "-", "BY">>, "https://creativecommons.org/licenses/by/4.0/">>,
    <<<<"CC", "-", "BY", "-", "SA">>, "https://creativecommons.org/licenses/by-sa/4.0/">>,
    <<<<"CC", "-", "BY", "-", "NC">>, "https://creativecommons.org/licenses/by-nc/4.0/">>,
    <<<<"CC", "-", "BY", "-", "NC", "-", "SA">>, "https://creativecommons.org/licenses/by-nc-sa/4.0/">>,
    <<<<"CC", "-", "BY", "-", "ND">>, "https://creativecommons.org/licenses/by-nd/4.0/">>,
    <<<<"CC", "-", "BY", "-", "NC", "-", "ND">>, "https://creativecommons.org/licenses/by-nc-nd/4.0/">>,
    <<<<"CC", " ", "BY">>, "https://creativecommons.org/licenses/by/4.0/">>,
    <<<<"CC", " ", "BY", "-", "SA">>, "https://creativecommons.org/licenses/by-sa/4.0/">>,
    <<<<"CC", " ", "BY", "-", "NC">>, "https://creativecommons.org/licenses/by-nc/4.0/">>,
    <<<<"CC", " ", "BY", "-", "NC", "-", "SA">>, "https://creativecommons.org/licenses/by-nc-sa/4.0/">>,
    <<<<"CC", " ", "BY", "-", "ND">>, "https://creativecommons.org/licenses/by-nd/4.0/">>,
    <<<<"CC", " ", "BY", "-", "NC", "-", "ND">>, "https://creativecommons.org/licenses/by-nc-nd/4.0/">>,
    <<<<"CC", " ", "BY", " ", "4.0">>, "https://creativecommons.org/licenses/by/4.0/">>,
    <<<<"CC", " ", "BY", "-", "SA", " ", "4.0">>, "https://creativecommons.org/licenses/by-sa/4.0/">>,
    <<<<"CC", " ", "BY", "-", "NC", " ", "4.0">>, "https://creativecommons.org/licenses/by-nc/4.0/">>,
    <<<<"CC", " ", "BY", "-", "NC", "-", "SA", " ", "4.0">>, "https://creativecommons.org/licenses/by-nc-sa/4.0/">>,
    <<<<"CC", " ", "BY", "-", "ND", " ", "4.0">>, "https://creativecommons.org/licenses/by-nd/4.0/">>,
    <<<<"CC", " ", "BY", "-", "NC", "-", "ND", " ", "4.0">>, "https://creativecommons.org/licenses/by-nc-nd/4.0/">>,
    <<<<"CC", " ", "BY", " ", "3.0">>, "https://creativecommons.org/licenses/by/3.0/">>,
    <<<<"CC", " ", "BY", "-", "SA", " ", "3.0">>, "https://creativecommons.org/licenses/by-sa/3.0/">>,
    <<<<"CC", " ", "BY", "-", "NC", " ", "3.0">>, "https://creativecommons.org/licenses/by-nc/3.0/">>,
    <<<<"CC", " ", "BY", "-", "NC", "-", "SA", " ", "3.0">>, "https://creativecommons.org/licenses/by-nc-sa/3.0/">>,
    <<<<"CC", " ", "BY", "-", "ND", " ", "3.0">>, "https://creativecommons.org/licenses/by-nd/3.0/">>,
    <<<<"CC", " ", "BY", "-", "NC", "-", "ND", " ", "3.0">>, "https://creativecommons.org/licenses/by-nc-nd/3.0/">>,
    <<<<"CC", " ", "BY", " ", "2.5">>, "https://creativecommons.org/licenses/by/2.5/">>,
    <<<<"CC", " ", "BY", "-", "SA", " ", "2.5">>, "https://creativecommons.org/licenses/by-sa/2.5/">>,
    <<<<"CC", " ", "BY", "-", "NC", " ", "2.5">>, "https://creativecommons.org/licenses/by-nc/2.5/">>,
    <<<<"CC", " ", "BY", "-", "NC", "-", "SA", " ", "2.5">>, "https://creativecommons.org/licenses/by-nc-sa/2.5/">>,
    <<<<"CC", " ", "BY", "-", "ND", " ", "2.5">>, "https://creativecommons.org/licenses/by-nd/2.5/">>,
    <<<<"CC", " ", "BY", "-", "NC", "-", "ND", " ", "2.5">>, "https://creativecommons.org/licenses/by-nc-nd/2.5/">>,
    <<<<"CC", " ", "BY", " ", "2.0">>, "https://creativecommons.org/licenses/by/2.0/">>,
    <<<<"CC", " ", "BY", "-", "SA", " ", "2.0">>, "https://creativecommons.org/licenses/by-sa/2.0/">>,
    <<<<"CC", " ", "BY", "-", "NC", " ", "2.0">>, "https://creativecommons.org/licenses/by-nc/2.0/">>,
    <<<<"CC", " ", "BY", "-", "NC", "-", "SA", " ", "2.0">>, "https://creativecommons.org/licenses/by-nc-sa/2.0/">>,
    <<<<"CC", " ", "BY", "-", "ND", " ", "2.0">>, "https://creativecommons.org/licenses/by-nd/2.0/">>,
    <<<<"CC", " ", "BY", "-", "NC", "-", "ND", " ", "2.0">>, "https://creativecommons.org/licenses/by-nc-nd/2.0/">>,
    <<<<"CC", " ", "BY", " ", "1.0">>, "https://creativecommons.org/licenses/by/1.0/">>,
    <<<<"CC", " ", "BY", "-", "SA", " ", "1.0">>, "https://creativecommons.org/licenses/by-sa/1.0/">>,
    <<<<"CC", " ", "BY", "-", "NC", " ", "1.0">>, "https://creativecommons.org/licenses/by-nc/1.0/">>,
    <<<<"CC", " ", "BY", "-", "NC", "-", "SA", " ", "1.0">>, "https://creativecommons.org/licenses/by-nc-sa/1.0/">>,
    <<<<"CC", " ", "BY", "-", "ND", " ", "1.0">>, "https://creativecommons.org/licenses/by-nd/1.0/">>,
    <<<<"CC", " ", "BY", "-", "NC", "-", "ND", " ", "1.0">>, "https://creativecommons.org/licenses/by-nc-nd/1.0/">>,
    <<<<"Public", " ", "Domain">>, "https://creativecommons.org/publicdomain/mark/1.0/">>,
    <<<<"MIT">>, "https://opensource.org/licenses/MIT">>,
    <<<<"Apache", "-", "2.0">>, "https://www.apache.org/licenses/LICENSE-2.0">>,
    <<<<"GPL", "-", "3.0">>, "https://www.gnu.org/licenses/gpl-3.0.en.html">>,
    <<<<"GPL", "-", "2.0">>, "https://www.gnu.org/licenses/old-licenses/gpl-2.0.en.html">>,
    <<<<"LGPL", "-", "2.1">>, "https://www.gnu.org/licenses/lgpl-2.1.en.html">>,
    <<<<"LGPL", "-", "3.0">>, "https://www.gnu.org/licenses/lgpl-3.0.en.html">>,
    <<<<"AGPL", "-", "3.0">>, "https://www.gnu.org/licenses/agpl-3.0.en.html">>,
    <<<<"BSD", "-", "3", "-", "Clause">>, "https://opensource.org/licenses/BSD-3-Clause">>,
    <<<<"BSD", "-", "2", "-", "Clause">>, "https://opensource.org/licenses/BSD-2-Clause">>,
    <<<<"Pixabay", " ", "License">>, "https://pixabay.com/service/terms/#license">>,
    <<<<"Unsplash", " ", "License">>, "https://unsplash.com/license">>,
    <<<<"Pexels", " ", "License">>, "https://www.pexels.com/license/">>,
    <<<<"Vecteezy", " ", "Free", " ", "License">>, "https://www.vecteezy.com/licensing-agreement">> }

\* translations/untranslate.json: localized label -> canonical key
UntranslateMap ==
  { << <<"Publiek domein">>, <<"Public", " ", "Domain">> >>,
    << <<"Alle rechten voorbehouden">>, <<"All", " ", "Rights", " ", "Reserved">> >> }

\* the message catalog of a language: msgid -> msgstr
Catalog(language) ==
  IF language = "nl"
  THEN { << <<"Public", " ", "Domain">>, <<"Publiek domein">> >>,
         << <<"All", " ", "Rights", " ", "Reserved">>, <<"Alle rechten voorbehouden">> >> }
  ELSE {}

\* table.get(k, k) for a table given as a set of <<key, value>> pairs
Lookup(table, k) ==
  IF \E p \in table : p[1] = k
  THEN (CHOOSE p \in table : p[1] = k)[2]
  ELSE k

untranslate_license(license_value) == Lookup(UntranslateMap, license_value)

translate(language, message) == Lookup(Catalog(language), message)

\* tokens holding a decimal digit (char.isdigit())
HasDigit(tok) ==
  tok \in {"0", "1", "2", "3", "4", "1.0", "2.0", "2.1", "2.5", "3.0", "4.0",
           "2020", "2024", "2025"}

\* s.replace("CC-", "CC ")
ReplaceCCDash(s) ==
  [i \in 1..Len(s) |-> IF i > 1 /\ s[i] = "-" /\ s[i-1] = "CC" THEN " " ELSE s[i]]

\* the display form with every dash replaced, not only the one after CC
DisplayLicense_EveryDash(language, license_value) ==
  LET t == translate(language, license_value)
      r == IF StartsWith(t, <<"CC", "-">>)
           THEN [i \in 1..Len(t) |-> IF t[i] = "-" THEN " " ELSE t[i]]
           ELSE t
  IN IF StartsWith(r, <<"CC", " ">>) /\ ~(\E i \in 1..Len(r) : HasDigit(r[i]))
     THEN r \o <<" ", "4.0">>
     ELSE r

\* the display form of a license: translate, "CC-" -> "CC ", append " 4.0"
DisplayLicense(language, license_value) ==
  LET t == translate(language, license_value)
      r == IF StartsWith(t, <<"CC", "-">>) THEN ReplaceCCDash(t) ELSE t
  IN IF StartsWith(r, <<"CC", " ">>) /\ ~(\E i \in 1..Len(r) : HasDigit(r[i]))
     THEN r \o <<" ", "4.0">>
     ELSE r

----------------------------------------------------------------------------
(* Dates *)

\* %Y: four digits
YearTokens == {"2020", "2024", "2025"}

\* %m: 1[0-2]|0[1-9]|[1-9]; 0 when the token is no month
MonthNum(tok) ==
  CASE tok \in {"01", "1"} -> 1
    [] tok \in {"02", "2"} -> 2
    [] tok \in {"03", "3"} -> 3
    [] tok \in {"06", "6"} -> 6
    [] tok = "12" -> 12
    [] OTHER -> 0

\* %d: 3[01]|[12]\d|0[1-9]|[1-9]; 0 when the token is no day
DayNum(tok) ==
  CASE tok \in {"01", "1"} -> 1
    [] tok \in {"02", "2"} -> 2
    [] tok \in {"03", "3"} -> 3
    [] tok \in {"05", "5"} -> 5
    [] tok = "15" -> 15
    [] tok = "30" -> 30
    [] tok = "31" -> 31
    [] OTHER -> 0

DaysInMonth(year, m) ==
  IF m = 2 THEN (IF year \in {"2020", "2024"} THEN 29 ELSE 28)
  ELSE IF m = 6 THEN 30 ELSE 31

\* datetime.strptime(date_value, "%Y-%m-%d"): [ok, year]; ok = FALSE is ValueError
strptime(date_value) ==
  IF /\ Len(date_value) = 5
     /\ date_value[2] = "-" /\ date_value[4] = "-"
     /\ date_value[1] \in YearTokens
     /\ MonthNum(date_value[3]) > 0
     /\ DayNum(date_value[5]) > 0
     /\ DayNum(date_value[5]) <= DaysInMonth(date_value[1], MonthNum(date_value[3]))
  THEN [ok |-> TRUE, year |-> date_value[1]]
  ELSE [ok |-> FALSE, year |-> ""]

----------------------------------------------------------------------------
(* Bibliography text *)

\* str.lower() of a token (re.IGNORECASE compares through it)
Lower(tok) ==
  CASE tok = "K1" -> "k1"
    [] tok = "Author" -> "author"
    [] tok = "Caption" -> "caption"
    [] tok = "HIDE" -> "hide"
    [] tok = "License:" -> "license:"
    [] OTHER -> tok

LowerSeq(s) == [i \in 1..Len(s) |-> Lower(s[i])]

\* \s
IsWs(tok) == tok \in {" ", "\n", "  "}

\* tokens matching @\w+\s*\{
IsEntryHead(tok) == tok \in {"@misc{", "@article{"}

\* tokens holding the character @
HasAt(tok) == IsEntryHead(tok) \/ tok = "http://e.test/u@n"

\* tokens matching \w+
IsWord(tok) ==
  tok \in {"author", "Author", "title", "year", "date", "url", "howpublished",
           "note", "copyright", "k1", "K1", "k2", "Jane", "Doe", "van", "MIT",
           "Foo", "2020", "2024", "2025", "text", "Fig"}

Min(S) == CHOOSE x \in S : \A y \in S : x <= y

\* index of the first token at or after i that is not whitespace (\s*)
RECURSIVE SkipWs(_, _)
SkipWs(s, i) == IF i <= Len(s) /\ IsWs(s[i]) THEN SkipWs(s, i + 1) ELSE i

\* s.strip()
RECURSIVE Strip(_)
Strip(s) ==
  IF s = <<>> THEN s
  ELSE IF IsWs(s[1]) THEN Strip(Tail(s))
  ELSE IF IsWs(s[Len(s)]) THEN Strip(SubSeq(s, 1, Len(s) - 1))
  ELSE s

\* \s*KEY\s*, after the entry head at index i: the index of the comma, 0 for no match
KeyComma(s, i, key) ==
  LET j == SkipWs(s, i + 1)
      c == SkipWs(s, j + Len(key))
  IN IF /\ key # <<>>
        /\ j + Len(key) - 1 <= Len(s)
        /\ LowerSeq(SubSeq(s, j, j + Len(key) - 1)) = LowerSeq(key)
        /\ c <= Len(s)
        /\ s[c] = ","
     THEN c
     ELSE 0

\* @\w+\s*\{\s*KEY\s*, anywhere in the text (the dedup search of _write_bib_entry)
HasEntryOpening(s, key) ==
  \E i \in 1..Len(s) : IsEntryHead(s[i]) /\ KeyComma(s, i, key) > 0

\* ([^@]*?)\}\s*(?=@|\Z) from index e: the index of the first closing brace that
\* only whitespace separates from the next @ or from the end, with no @ before
\* it; 0 for none
EntryEnd(s, e) ==
  LET ends == { x \in e..Len(s) :
                  /\ s[x] = "}"
                  /\ (LET n == SkipWs(s, x + 1) IN n > Len(s) \/ HasAt(s[n]))
                  /\ \A y \in e..(x - 1) : ~HasAt(s[y]) }
  IN IF ends = {} THEN 0 ELSE Min(ends)

\* re.search of the entry pattern from index i on: [found, content]
FindEntryFrom(s, i, key) ==
  LET hits == { h \in i..Len(s) :
                  /\ IsEntryHead(s[h])
                  /\ KeyComma(s, h, key) > 0
                  /\ EntryEnd(s, KeyComma(s, h, key) + 1) > 0 }
  IN IF hits = {} THEN [found |-> FALSE, content |-> <<>>]
     ELSE LET c == KeyComma(s, Min(hits), key)
          IN [found |-> TRUE, content |-> SubSeq(s, c + 1, EntryEnd(s, c + 1) - 1)]

FindEntry(s, key) == FindEntryFrom(s, 1, key)

\* [^{}]*(?:\{[^{}]*\}[^{}]*)*\} from index k: the index of the closing brace, 0 for none
RECURSIVE ScanBrace(_, _, _)
ScanBrace(s, k, depth) ==
  IF k > Len(s) THEN 0
  ELSE IF s[k] = "{" THEN (IF depth = 1 THEN 0 ELSE ScanBrace(s, k + 1, 1))
  ELSE IF s[k] = "}" THEN (IF depth = 0 THEN k ELSE ScanBrace(s, k + 1, 0))
  ELSE ScanBrace(s, k + 1, depth)

\* [^"]*" from index k: the index of the closing quote, 0 for none
RECURSIVE ScanQuote(_, _)
ScanQuote(s, k) ==
  IF k > Len(s) THEN 0
  ELSE IF s[k] = "\"" THEN k
  ELSE ScanQuote(s, k + 1)

\* the field pattern matched at index p: [ok, name, value, end];
\* value is group(2) or group(3): None for {} , "" for ""
MatchField(s, p) ==
  LET nomatch == [ok |-> FALSE, name |-> "", value |-> None, end |-> 0]
      e == SkipWs(s, p + 1)
      b == SkipWs(s, e + 1)
  IN IF ~(IsWord(s[p]) /\ e <= Len(s) /\ s[e] = "=" /\ b <= Len(s)) THEN nomatch
     ELSE IF s[b] = "{" /\ ScanBrace(s, b + 1, 0) > 0
       THEN LET k == ScanBrace(s, b + 1, 0)
                g == SubSeq(s, b + 1, k - 1)
            IN [ok |-> TRUE, name |-> Lower(s[p]),
                value |-> IF g = <<>> THEN None ELSE Some(g), end |-> k]
     ELSE IF s[b] = "\"" /\ ScanQuote(s, b + 1) > 0
       THEN LET k == ScanQuote(s, b + 1)
            IN [ok |-> TRUE, name |-> Lower(s[p]),
                value |-> Some(SubSeq(s, b + 1, k - 1)), end |-> k]
     ELSE nomatch

\* " ".join(result.split()): runs of whitespace become one space, ends stripped
RECURSIVE CollapseWs(_)
CollapseWs(s) ==
  IF s = <<>> THEN s
  ELSE IF IsWs(s[1])
    THEN (IF Len(s) > 1 /\ IsWs(s[2]) THEN CollapseWs(Tail(s))
          ELSE <<" ">> \o CollapseWs(Tail(s)))
  ELSE <<s[1]>> \o CollapseWs(Tail(s))

_strip_surrounding_braces(x) ==
  IF ~Truthy(x) THEN x
  ELSE Some(Strip(CollapseWs(SelectSeq(x.v, LAMBDA t : t \notin {"{", "}"}))))

\* re.search(r"\\url\{([^}]+)\}", field_value): [ok, url]
UrlMatch(s) ==
  LET hits == { i \in 1..Len(s) :
                  /\ s[i] = "\\url" /\ i + 2 <= Len(s) /\ s[i + 1] = "{"
                  /\ s[i + 2] # "}"
                  /\ \E k \in (i + 3)..Len(s) : s[k] = "}" }
  IN IF hits = {} THEN [ok |-> FALSE, url |-> <<>>]
     ELSE LET i == Min(hits)
              k == Min({ k \in (i + 3)..Len(s) : s[k] = "}" })
          IN [ok |-> TRUE, url |-> SubSeq(s, i + 2, k - 1)]

\* re.search(r"License:\s*(.+)", field_value, re.IGNORECASE): [ok, value],
\* value being group(1).strip()
LicenseNoteMatch(s) ==
  LET hits == { i \in 1..Len(s) :
                  /\ Lower(s[i]) = "license:"
                  /\ \E k \in (i + 1)..Len(s) :
                        s[k] # "\n" /\ \A t \in (i + 1)..(k - 1) : IsWs(s[t]) }
  IN IF hits = {} THEN [ok |-> FALSE, value |-> <<>>]
     ELSE LET i == Min(hits)
              j == SkipWs(s, i + 1)
              nls == { k \in j..Len(s) : s[k] = "\n" }
              stop == IF nls = {} THEN Len(s) + 1 ELSE Min(nls)
          IN [ok |-> TRUE, value |-> Strip(SubSeq(s, j, stop - 1))]

\* the body of the field loop of _parse_bib_entry for one field;
\* acc is [raised, metadata], metadata mapping a key to an optional string
ApplyField(acc, field_name, raw) ==
  LET metadata == acc.metadata
      field_value == IF Truthy(raw) THEN Some(Strip(raw.v)) ELSE raw
      set(k, x) == [acc EXCEPT !.metadata = DictUnion(metadata, [kk \in {k} |-> x])]
  IN CASE field_name = "author" -> set("author", _strip_surrounding_braces(field_value))
       [] field_name = "year" ->
            IF "date" \notin DOMAIN metadata
            THEN set("date", Some((IF field_value.some THEN field_value.v ELSE <<"None">>)
                                   \o <<"-", "01", "-", "01">>))
            ELSE acc
       [] field_name = "date" -> set("date", field_value)
       [] field_name = "url" -> set("source", field_value)
       [] field_name = "howpublished" ->
            IF ~field_value.some THEN [acc EXCEPT !.raised = TRUE]
            ELSE IF UrlMatch(field_value.v).ok
              THEN set("source", Some(UrlMatch(field_value.v).url))
            ELSE IF "source" \notin DOMAIN metadata THEN set("source", field_value)
            ELSE acc
       [] field_name = "note" ->
            IF ~field_value.some THEN [acc EXCEPT !.raised = TRUE]
            ELSE IF LicenseNoteMatch(field_value.v).ok
              THEN set("license", Some(LicenseNoteMatch(field_value.v).value))
            ELSE acc
       [] field_name = "copyright" -> set("copyright", field_value)
       [] OTHER -> acc

\* for field_match in re.finditer(field_pattern, entry_content)
RECURSIVE ParseFields(_, _, _)
ParseFields(s, p, acc) ==
  IF p > Len(s) \/ acc.raised THEN acc
  ELSE LET m == MatchField(s, p)
       IN IF m.ok THEN ParseFields(s, m.end + 1, ApplyField(acc, m.name, m.value))
          ELSE ParseFields(s, p + 1, acc)

\* _parse_bib_entry(bib_content, key): [raised, found, metadata];
\* found = FALSE is the result None, raised = TRUE is a TypeError
_parse_bib_entry(content, key) ==
  LET entry == FindEntry(content, key)
      acc == ParseFields(entry.content, 1, [raised |-> FALSE, metadata |-> EmptyDict])
  IN IF ~entry.found THEN [raised |-> FALSE, found |-> FALSE, metadata |-> EmptyDict]
     ELSE IF acc.raised THEN [raised |-> TRUE, found |-> FALSE, metadata |-> EmptyDict]
     ELSE [raised |-> FALSE, found |-> DOMAIN acc.metadata # {}, metadata |-> acc.metadata]

----------------------------------------------------------------------------
(* Settings *)

METADATA_FIGURE_DEFAULTS ==
  [ style |-> [ placement |-> <<"hide">>,
                show |-> <<"author", ",", "license", ",", "date", ",",
                           "copyright", ",", "source">>,
                admonition_title |-> <<"Attribution">>,
                admonition_class |-> <<"attribution">> ],
    license |-> [ link_license |-> TRUE,
                  strict_check |-> FALSE,
                  summaries |-> FALSE,
                  individual |-> FALSE,
                  substitute_missing |-> FALSE,
                  default_license |-> <<"CC", " ", "BY">> ],
    author |-> [ substitute_missing |-> FALSE, default_author |-> <<"config">> ],
    date |-> [ substitute_missing |-> FALSE, default_date |-> <<"today">> ],
    copyright |-> [ substitute_missing |-> FALSE,
                    default_copyright |-> <<"authoryear">> ],
    source |-> [ warn_missing |-> FALSE ],
    bib |-> [ extract_metadata |-> TRUE,
              generate_bib |-> FALSE,
              output_file |-> <<"_generated_figures.bib">> ] ]

\* settings[key] = METADATA_FIGURE_DEFAULTS[key] | user_settings.get(key, {})
MergeSettings(user_settings) ==
  [ key \in DOMAIN METADATA_FIGURE_DEFAULTS |->
      DictUnion(METADATA_FIGURE_DEFAULTS[key],
                IF key \in DOMAIN user_settings THEN user_settings[key] ELSE EmptyDict) ]

----------------------------------------------------------------------------
(* Copyright substitution *)

\* _copyright_from_authoryear: [raised, value]; raised = TRUE is the ValueError of
\* strptime; the token "(c)" is the copyright sign
_copyright_from_authoryear(author_value, date_value) ==
  IF Truthy(author_value) /\ Truthy(date_value)
  THEN IF strptime(date_value.v).ok
       THEN [raised |-> FALSE,
             value |-> Some(<<"(c)", " ", strptime(date_value.v).year, " ">> \o author_value.v)]
       ELSE [raised |-> TRUE, value |-> None]
  ELSE IF Truthy(author_value)
  THEN [raised |-> FALSE, value |-> Some(<<"(c)", " ">> \o author_value.v)]
  ELSE IF Truthy(date_value)
  THEN IF strptime(date_value.v).ok
       THEN [raised |-> FALSE, value |-> Some(<<"(c)", " ", strptime(date_value.v).year>>)]
       ELSE [raised |-> TRUE, value |-> None]
  ELSE [raised |-> FALSE, value |-> None]

\* _resolve_copyright: [raised, value]
_resolve_copyright(default_copyright, author_value, date_value, cfg) ==
  LET ay == _copyright_from_authoryear(author_value, date_value)
  IN CASE default_copyright = <<"authoryear">> -> ay
       [] default_copyright = <<"config">> -> [raised |-> FALSE, value |-> cfg.copyright]
       [] default_copyright = <<"authoryear-config">> ->
            IF ay.raised THEN ay
            ELSE [raised |-> FALSE, value |-> Or(ay.value, cfg.copyright)]
       [] default_copyright = <<"config-authoryear">> ->
            IF Truthy(cfg.copyright) THEN [raised |-> FALSE, value |-> cfg.copyright]
            ELSE ay
       [] OTHER -> [raised |-> FALSE, value |-> Some(default_copyright)]


----------------------------------------------------------------------------
(* Attribution rendering *)

\* str.split(","): the pieces between the comma tokens
RECURSIVE SplitComma(_, _)
SplitComma(s, piece) ==
  IF s = <<>> THEN <<piece>>
  ELSE IF Head(s) = "," THEN <<piece>> \o SplitComma(Tail(s), <<>>)
  ELSE SplitComma(Tail(s), Append(piece, Head(s)))

\* the pieces of a list that are not empty
RECURSIVE NonEmpty(_)
NonEmpty(pieces) ==
  IF pieces = <<>> THEN <<>>
  ELSE IF Head(pieces) = <<>> THEN NonEmpty(Tail(pieces))
  ELSE <<Head(pieces)>> \o NonEmpty(Tail(pieces))

\* [s.strip().lower() for s in str(show_raw).split(",") if s.strip()]
ShowList(show_raw) ==
  NonEmpty([ i \in 1..Len(SplitComma(show_raw, <<>>)) |->
               LowerSeq(Strip(SplitComma(show_raw, <<>>)[i])) ])

\* name in show
InShow(name, show) == \E i \in 1..Len(show) : show[i] = <<name>>

\* LICENSE_URLS[key]; <<>> when the table has no such key
LicenseUrl(key) ==
  IF \E p \in LICENSE_URLS : p[1] = key
  THEN <<(CHOOSE p \in LICENSE_URLS : p[1] = key)[2]>>
  ELSE <<>>

\* a display part: the text and, for a hyperlink, its text and url
NoLink == [linked |-> FALSE, text |-> <<>>, url |-> <<>>]
Part(field, text, link) == [field |-> field, text |-> text, link |-> link]
Link(text, url) == [linked |-> TRUE, text |-> text, url |-> url]

\* source.startswith("http")
IsHttp(source) == source # <<>> /\ source[1] \in {"http://x.test", "http://e.test", "http://e.test/u@n"}

\* the positions of "](" in the source
LinkMarks(source) == { i \in 1..Len(source) : source[i] = "](" }

\* the part of the source field
SourcePart(language, source) ==
  IF IsHttp(source)
  THEN Part("source", <<translate(language, <<"Source">>), ": ">>, Link(source, source))
  ELSE IF Cardinality(LinkMarks(source)) = 1
  THEN LET m == CHOOSE i \in LinkMarks(source) : TRUE
           text_part == SubSeq(source, 1, m - 1)
           url_part == SubSeq(source, m + 1, Len(source))
       IN Part("source", <<translate(language, <<"Source">>), ": ">>,
               Link(IF text_part # <<>> /\ Head(text_part) = "[" THEN Tail(text_part)
                    ELSE text_part,
                    IF url_part # <<>> /\ url_part[Len(url_part)] = ")"
                    THEN SubSeq(url_part, 1, Len(url_part) - 1) ELSE url_part))
  ELSE Part("source", <<translate(language, <<"Source">>), ": ">> \o source, NoLink)

\* the part of the license field
LicensePart(language, license, link_license) ==
  IF link_license /\ LicenseUrl(license) # <<>>
  THEN Part("license", <<translate(language, <<"License">>), ": ">>,
            Link(license, LicenseUrl(license)))
  ELSE Part("license", <<translate(language, <<"License">>), ": ">> \o license, NoLink)

\* the part of a field shown as plain text
TextPart(language, field, label, value) ==
  Part(field, <<translate(language, <<label>>), ": ">> \o value, NoLink)

\* the parts list with every present field, whatever the show list names
Parts_AllPresent(attrs, show, link_license, language) ==
  (IF "author" \in DOMAIN attrs
   THEN <<TextPart(language, "author", "Author", attrs["author"])>> ELSE <<>>) \o
  (IF "license" \in DOMAIN attrs
   THEN <<LicensePart(language, attrs["license"], link_license)>> ELSE <<>>) \o
  (IF "date" \in DOMAIN attrs
   THEN <<TextPart(language, "date", "Date", attrs["date"])>> ELSE <<>>) \o
  (IF "copyright" \in DOMAIN attrs
   THEN <<TextPart(language, "copyright", "Copyright", attrs["copyright"])>> ELSE <<>>) \o
  (IF "source" \in DOMAIN attrs THEN <<SourcePart(language, attrs["source"])>> ELSE <<>>)

\* the parts list of _build_attribution_display
Parts(attrs, show, link_license, language) ==
  (IF "author" \in DOMAIN attrs /\ InShow("author", show)
   THEN <<TextPart(language, "author", "Author", attrs["author"])>> ELSE <<>>) \o
  (IF "license" \in DOMAIN attrs /\ InShow("license", show)
   THEN <<LicensePart(language, attrs["license"], link_license)>> ELSE <<>>) \o
  (IF "date" \in DOMAIN attrs /\ InShow("date", show)
   THEN <<TextPart(language, "date", "Date", attrs["date"])>> ELSE <<>>) \o
  (IF "copyright" \in DOMAIN attrs /\ InShow("copyright", show)
   THEN <<TextPart(language, "copyright", "Copyright", attrs["copyright"])>> ELSE <<>>) \o
  (IF "source" \in DOMAIN attrs /\ InShow("source", show)
   THEN <<SourcePart(language, attrs["source"])>> ELSE <<>>)

\* what the renderer returns: kind is "empty" (the empty list), "span" (the
\* figure-metadata span, br for the leading line break) or "admonition" (a list
\* holding one admonition with its classes and title)
NoDisplay ==
  [ kind |-> "empty", br |-> FALSE, classes |-> <<>>, title |-> <<>>, parts |-> <<>> ]

\* the serialization of a non-empty parts list
Serialize(figure_node, placement, title, admonition_class, parts) ==
  IF placement = <<"caption">>
  THEN [ NoDisplay EXCEPT !.kind = "span", !.parts = parts,
           !.br = (~figure_node.unnumbered_caption
                   \/ figure_node.original_caption # "none") ]
  ELSE [ NoDisplay EXCEPT !.kind = "admonition", !.parts = parts, !.title = title,
           !.classes = <<admonition_class>> \o
                       (IF placement = <<"margin">> THEN <<<<"margin">>>> ELSE <<>>) ]

\* the renderer without the early return for hide
_build_attribution_display_NoHide(figure_node, placement, show, title, admonition_class, link_license, language) ==
  IF Parts(figure_node.attrs, show, link_license, language) = <<>> THEN NoDisplay
  ELSE Serialize(figure_node, placement, title, admonition_class,
                 Parts(figure_node.attrs, show, link_license, language))

\* _build_attribution_display, with the language of the translator
_build_attribution_display(figure_node, placement, show, title, admonition_class, link_license, language) ==
  IF placement = <<"hide">> THEN NoDisplay
  ELSE IF Parts(figure_node.attrs, show, link_license, language) = <<>> THEN NoDisplay
  ELSE Serialize(figure_node, placement, title, admonition_class,
                 Parts(figure_node.attrs, show, link_license, language))

\* option or page default or style setting
Control(name, options, pd, fallback) ==
  Or(Get(options, name), Or(Get(pd, name), Some(fallback))).v
----------------------------------------------------------------------------
(* MetadataFigure.run: metadata resolution *)

\* bib_metadata.get(k, None): the values of bib_metadata are optional strings
GetOpt(d, k) == IF k \in DOMAIN d THEN d[k] ELSE None

\* the chain with the bibliography value ahead of the explicit option
Chain_BibFirst(field, options, bib_metadata, pd) ==
  Or(GetOpt(bib_metadata, field), Or(Get(options, field), Get(pd, field)))

\* options.get(k) or bib_metadata.get(k) or page_defaults.get(k)
Chain(field, options, bib_metadata, pd) ==
  Or(Get(options, field), Or(GetOpt(bib_metadata, field), Get(pd, field)))

\* the conflict of the numbering flags settled for :number: whatever the content
NumberingOptions_NumberWins(options, content) ==
  LET both == "number" \in DOMAIN options /\ "nonumber" \in DOMAIN options
      opts == IF both THEN [k \in (DOMAIN options) \ {"nonumber"} |-> options[k]] ELSE options
  IN [ options |-> opts,
       content |-> IF content = "none" /\ "number" \in DOMAIN opts
                   THEN "placeholder" ELSE content,
       warned |-> both ]

\* the :number:/:nonumber: conflict and the placeholder caption:
\* [options, content, warned]; content is "none", "text" or "placeholder"
NumberingOptions(options, content) ==
  LET both == "number" \in DOMAIN options /\ "nonumber" \in DOMAIN options
      drop == IF content # "none" THEN "number" ELSE "nonumber"
      opts == IF both THEN [k \in (DOMAIN options) \ {drop} |-> options[k]] ELSE options
  IN [ options |-> opts,
       content |-> IF content = "none" /\ "number" \in DOMAIN opts
                   THEN "placeholder" ELSE content,
       warned |-> both ]

\* the :bib: extraction: [raised, metadata, warned]
BibMetadata(options, bib_settings, bibtext) ==
  LET bib_key == Get(options, "bib")
      none == [raised |-> FALSE, metadata |-> EmptyDict, warned |-> FALSE]
  IN IF Truthy(bib_key) /\ bib_settings.extract_metadata /\ bibtext # <<>>
     THEN LET extracted == _parse_bib_entry(bibtext, bib_key.v)
          IN IF extracted.raised THEN [none EXCEPT !.raised = TRUE]
             ELSE IF extracted.found THEN [none EXCEPT !.metadata = extracted.metadata]
             ELSE [none EXCEPT !.warned = TRUE]
     ELSE none

\* the license candidate without the untranslate step
LicenseCanonical_NoUntranslate(options, bib_metadata, pd, license_settings) ==
  LET chain == Chain("license", options, bib_metadata, pd)
  IN IF ~Truthy(chain) /\ license_settings.substitute_missing
     THEN Some(license_settings.default_license)
     ELSE chain

\* the license candidate after the precedence chain, substitution and untranslate
LicenseCanonical(options, bib_metadata, pd, license_settings) ==
  LET chain == Chain("license", options, bib_metadata, pd)
      candidate == IF ~Truthy(chain) /\ license_settings.substitute_missing
                   THEN Some(license_settings.default_license)
                   ELSE chain
  IN IF Truthy(candidate) THEN Some(untranslate_license(candidate.v)) ELSE candidate

\* the validation of the candidate: "" (valid), "missing" or "unrecognized"
LicenseProblem(license_value) ==
  IF ~license_value.some THEN "missing"
  ELSE IF license_value.v \notin VALID_LICENSES THEN "unrecognized"
  ELSE ""

\* the reaction with 'individual' tested ahead of 'strict_check'
LicenseReaction_IndividualFirst(problem, license_settings) ==
  IF problem = "" THEN ""
  ELSE IF license_settings.individual THEN "warn"
  ELSE IF license_settings.strict_check THEN "raise"
  ELSE ""

\* the reaction to a license problem: "raise", "warn" or "" (silent)
LicenseReaction(problem, license_settings) ==
  IF problem = "" THEN ""
  ELSE IF license_settings.strict_check THEN "raise"
  ELSE IF license_settings.individual THEN "warn"
  ELSE ""

\* the license value after translation and display normalization
LicenseStored(license_value, language) ==
  IF Truthy(license_value)
  THEN Some(DisplayLicense(language, license_value.v))
  ELSE license_value

\* the date with the clock's date for every value, sentinel or not
DateValue_AlwaysNow(options, bib_metadata, pd, date_settings, now) ==
  LET chain == Chain("date", options, bib_metadata, pd)
  IN IF Truthy(chain) \/ date_settings.substitute_missing THEN Some(now) ELSE chain

\* the date after the precedence chain, substitution and the "today" sentinel
DateValue(options, bib_metadata, pd, date_settings, now) ==
  LET chain == Chain("date", options, bib_metadata, pd)
      candidate == IF ~Truthy(chain) /\ date_settings.substitute_missing
                   THEN Some(date_settings.default_date)
                   ELSE chain
  IN IF Truthy(candidate) /\ candidate.v = <<"today">> THEN Some(now) ELSE candidate

\* whether the date format warning is logged
DateWarned(date_value) == Truthy(date_value) /\ ~strptime(date_value.v).ok

\* the author after the precedence chain and substitution
AuthorValue(options, bib_metadata, pd, author_settings, cfg) ==
  LET chain == Chain("author", options, bib_metadata, pd)
  IN IF ~Truthy(chain) /\ author_settings.substitute_missing
     THEN (IF author_settings.default_author = <<"config">>
           THEN cfg.author
           ELSE Some(author_settings.default_author))
     ELSE chain

\* the copyright after the precedence chain and substitution: [raised, value]
CopyrightValue(options, bib_metadata, pd, copyright_settings, author_value, date_value, cfg) ==
  LET chain == Chain("copyright", options, bib_metadata, pd)
  IN IF ~Truthy(chain) /\ copyright_settings.substitute_missing
     THEN _resolve_copyright(copyright_settings.default_copyright,
                             author_value, date_value, cfg)
     ELSE [raised |-> FALSE, value |-> chain]

\* the source after the precedence chain, before the "document" sentinel
SourceChain(options, bib_metadata, pd) == Chain("source", options, bib_metadata, pd)

\* the "document" sentinel: a markdown link to the document's own source file
SourceValue(source_value, doc) ==
  IF source_value.some /\ source_value.v = <<"document">>
  THEN Some(<<"[", "Source code", "](", "/_sources/", doc, ".md", ")">>)
  ELSE source_value

\* the metadata attributes set on the figure node: only truthy values are stored
NodeMetadata(author_value, license_value, date_value, copyright_value, source_value) ==
  LET vals == [ author |-> author_value, license |-> license_value,
                date |-> date_value, copyright |-> copyright_value,
                source |-> source_value ]
  IN [ k \in { f \in DOMAIN vals : Truthy(vals[f]) } |-> vals[k].v ]

\* a figure node: attrs are the metadata attributes present on it; caption is the
\* caption child ("none", "text" or "placeholder"); original_caption is "none"
\* when the node has no such attribute
NoNode ==
  [ attrs |-> EmptyDict, unnumbered_caption |-> TRUE, original_caption |-> "none",
    caption |-> "none", image |-> FALSE, license_html |-> NoDisplay ]

NoCall ==
  [ outcome |-> "none", exc |-> "", warnings |-> <<>>, doc |-> "",
    has_argument |-> FALSE, content |-> "none", options |-> EmptyDict,
    bib_metadata |-> EmptyDict, page_defaults |-> EmptyDict,
    canonical |-> None, node |-> NoNode,
    placement |-> <<>>, show |-> <<>>, display |-> NoDisplay, returned |-> <<>>,
    stored |-> [now |-> EmptyDict, before |-> EmptyDict] ]

\* a license problem as the diagnostic it is reported with
LicenseDiagnostic(problem) ==
  IF problem = "missing" THEN "license_missing" ELSE "license_unrecognized"

\* the numbering attributes and the caption child of the figure node
Numbering(content, nonumber) ==
  IF content # "none" /\ nonumber
  THEN [ unnumbered_caption |-> TRUE, original_caption |-> content, caption |-> "none" ]
  ELSE [ unnumbered_caption |-> (content = "none"), original_caption |-> "none",
         caption |-> content ]

\* MetadataFigure.run from the attachment of the display on: returned is the node
\* list the directive returns, "figure" the figure node and "display" the
\* renderer's admonition
RunAttach(call, placement, display_nodes) ==
  IF display_nodes.kind = "empty"
  THEN [ call EXCEPT !.placement = placement, !.display = display_nodes,
                     !.returned = <<"figure">> ]
  ELSE IF placement = <<"caption">>
  THEN [ call EXCEPT !.placement = placement, !.display = display_nodes,
                     !.node.license_html = display_nodes,
                     !.returned = <<"figure">> ]
  ELSE IF placement = <<"margin">>
  THEN [ call EXCEPT !.placement = placement, !.display = display_nodes,
                     !.returned = <<"display", "figure">> ]
  ELSE [ call EXCEPT !.placement = placement, !.display = display_nodes,
                     !.returned = <<"figure", "display">> ]

\* the placement in force
Placement(call, env, num) ==
  LowerSeq(Strip(Control("placement", num.options, call.page_defaults,
                         env.settings.style.placement)))

\* MetadataFigure.run from the rendering controls on
RunRender(call, env, num) ==
  RunAttach(
    [ call EXCEPT !.show = ShowList(Control("show", num.options, call.page_defaults,
                                            env.settings.style.show)) ],
    Placement(call, env, num),
    _build_attribution_display(
      call.node,
      Placement(call, env, num),
      ShowList(Control("show", num.options, call.page_defaults, env.settings.style.show)),
      Control("admonition_title", num.options, call.page_defaults,
              translate(env.cfg.language, env.settings.style.admonition_title)),
      Control("admonition_class", num.options, call.page_defaults,
              env.settings.style.admonition_class),
      env.settings.license.link_license,
      env.cfg.language))

\* MetadataFigure.run from the copyright on: call is the call so far, env what the
\* directive reads ([cfg, bibtext, now, settings]), num the numbering options
RunCopyright(call, env, num, license_value, date_value, author_value, copy) ==
  IF copy.raised
  THEN [ call EXCEPT !.outcome = "raised", !.exc = "ValueError" ]
  ELSE RunRender(
         [ call EXCEPT
           !.outcome = "ok",
           !.warnings =
             @ \o (IF ~SourceChain(num.options, call.bib_metadata, call.page_defaults).some
                      /\ env.settings.source.warn_missing
                   THEN <<"source_missing">> ELSE <<>>),
           !.node =
             [ attrs |->
                 NodeMetadata(author_value, license_value, date_value, copy.value,
                   SourceValue(SourceChain(num.options, call.bib_metadata,
                                           call.page_defaults), call.doc)),
               unnumbered_caption |->
                 Numbering(num.content, "nonumber" \in DOMAIN num.options).unnumbered_caption,
               original_caption |->
                 Numbering(num.content, "nonumber" \in DOMAIN num.options).original_caption,
               caption |->
                 Numbering(num.content, "nonumber" \in DOMAIN num.options).caption,
               image |-> call.has_argument,
               license_html |-> NoDisplay ] ],
         env, num)

\* MetadataFigure.run from the date format check on
RunFields(call, env, num, license_value, date_value, author_value) ==
  RunCopyright(
    [ call EXCEPT !.warnings =
        @ \o (IF DateWarned(date_value) THEN <<"date_format">> ELSE <<>>) ],
    env, num, license_value, date_value, author_value,
    CopyrightValue(num.options, call.bib_metadata, call.page_defaults,
                   env.settings.copyright, author_value, date_value, env.cfg))

\* MetadataFigure.run from the license validation on
RunLicense(call, env, num, canonical) ==
  IF LicenseReaction(LicenseProblem(canonical), env.settings.license) = "raise"
  THEN [ call EXCEPT !.outcome = "raised",
                     !.exc = LicenseDiagnostic(LicenseProblem(canonical)),
                     !.canonical = canonical ]
  ELSE RunFields(
         [ call EXCEPT
             !.canonical = canonical,
             !.warnings =
               @ \o (IF LicenseReaction(LicenseProblem(canonical), env.settings.license) = "warn"
                     THEN <<LicenseDiagnostic(LicenseProblem(canonical))>> ELSE <<>>) ],
         env, num,
         LicenseStored(canonical, env.cfg.language),
         DateValue(num.options, call.bib_metadata, call.page_defaults,
                   env.settings.date, env.now),
         AuthorValue(num.options, call.bib_metadata, call.page_defaults,
                     env.settings.author, env.cfg))

\* MetadataFigure.run from the end of the bibliography extraction on
RunExtracted(call, env, num, bib) ==
  IF bib.raised
  THEN [ call EXCEPT !.outcome = "raised", !.exc = "TypeError" ]
  ELSE RunLicense(
         [ call EXCEPT !.bib_metadata = bib.metadata,
                       !.warnings = @ \o (IF bib.warned THEN <<"bib_key">> ELSE <<>>) ],
         env, num,
         LicenseCanonical(num.options, bib.metadata, call.page_defaults,
                          env.settings.license))

\* MetadataFigure.run from the numbering options on
RunNumbered(call, env, num) ==
  RunExtracted(
    [ call EXCEPT !.warnings = IF num.warned THEN <<"number_nonumber">> ELSE <<>> ],
    env, num, BibMetadata(num.options, env.settings.bib, env.bibtext))

\* MetadataFigure.run as a function of the directive and of what it reads:
\* doc is env.docname, pd the page defaults of doc
Run(has_argument, content0, options0, doc, pd, cfg, bibtext, now) ==
  IF ~has_argument /\ content0 = "none" /\ "number" \notin DOMAIN options0
  THEN [ NoCall EXCEPT !.doc = doc, !.has_argument = has_argument,
                       !.content = content0, !.options = options0,
                       !.page_defaults = pd,
                       !.outcome = "early", !.warnings = <<"no_argument">> ]
  ELSE RunNumbered(
         [ NoCall EXCEPT !.doc = doc, !.has_argument = has_argument,
                         !.content = content0, !.options = options0,
                         !.page_defaults = pd ],
         [ cfg |-> cfg, bibtext |-> bibtext, now |-> now,
           settings |-> MergeSettings(cfg.metadata_figure_settings) ],
         NumberingOptions(options0, content0))
----------------------------------------------------------------------------
(* Page defaults and the build lifecycle *)

Docs == {"d1", "d2"}
NoDoc == ""
DocOrder == [d \in Docs |-> IF d = "d1" THEN 1 ELSE 2]

MaxBuilds == 2       \* builds (full or incremental) of one environment
MaxDirectives == 2   \* default-metadata-page directives in one read of a document
MaxFigures == 1      \* figure directives in one read of a document

\* the hook without the deletion
clear_page_defaults_Keep(defaults, docnames) == defaults

\* the hook deleting the defaults of every document
clear_page_defaults_All(defaults, docnames) ==
  [ d \in {} |-> defaults[d] ]

\* clear_page_defaults(app, env, docnames)
clear_page_defaults(defaults, docnames) ==
  [ d \in (DOMAIN defaults) \ docnames |-> defaults[d] ]

\* the directive replacing what earlier directives of the document stored
StorePageDefaults_Replace(defaults, doc, options) ==
  [ d \in (DOMAIN defaults) \cup {doc} |-> IF d = doc THEN options ELSE defaults[d] ]

\* DefaultMetadataPage.run: the new env.metadata_figure_page_defaults
StorePageDefaults(defaults, doc, options) ==
  IF doc \notin DOMAIN defaults
  THEN DictUnion(defaults, [d \in {doc} |-> options])
  ELSE [defaults EXCEPT ![doc] = DictUnion(defaults[doc], options)]

\* env.metadata_figure_page_defaults.get(docname, {})
PageDefaultsOf(defaults, doc) ==
  IF doc \in DOMAIN defaults THEN defaults[doc] ELSE EmptyDict

\* env-before-read-docs: a build starts reading the documents docnames
BeforeReadDocs(docnames) ==
  /\ docname = NoDoc /\ toread = {} /\ builds < MaxBuilds
  /\ docnames # {}
  /\ page_defaults' = clear_page_defaults(page_defaults, docnames)
  /\ toread' = docnames
  /\ builds' = builds + 1
  /\ UNCHANGED <<resolved, writers, config, today, bib_content, docname, ndirectives, doctree, last,
                 stored, out_file, wlog>>

\* the read of document d begins: a fresh doctree; the documents of a build are
\* read in sorted order
ReadDoc(d) ==
  /\ docname = NoDoc /\ d \in toread
  /\ \A other \in toread : DocOrder[d] <= DocOrder[other]
  /\ docname' = d
  /\ ndirectives' = 0
  /\ doctree' = [doctree EXCEPT ![d] = <<>>]
  /\ stored' = [stored EXCEPT ![d] = [now |-> EmptyDict, before |-> stored[d].now]]
  /\ last' = NoCall
  /\ resolved' = [resolved EXCEPT !.passes[d] = 0, !.tree[d] = <<>>]
  /\ UNCHANGED <<writers, config, today, bib_content, page_defaults, toread, builds,
                 out_file, wlog>>

\* a default-metadata-page directive with the given options is executed
DefaultMetadataPageRun(options) ==
  /\ docname # NoDoc /\ ndirectives < MaxDirectives
  /\ page_defaults' = StorePageDefaults(page_defaults, docname, options)
  /\ stored' = [stored EXCEPT ![docname].now = DictUnion(@, options)]
  /\ ndirectives' = ndirectives + 1
  /\ UNCHANGED <<resolved, writers, config, today, bib_content, docname, toread, builds, doctree, last,
                 out_file, wlog>>

\* a figure directive is executed; an exception aborts the build
MetadataFigureRun(has_argument, content, options) ==
  /\ docname # NoDoc /\ Len(doctree[docname]) < MaxFigures
  /\ \E call \in { Run(has_argument, content, options, docname,
                         PageDefaultsOf(page_defaults, docname), config, bib_content,
                         today) } :
        /\ last' = [call EXCEPT !.stored = stored[docname]]
        /\ doctree' = IF call.outcome = "ok"
                      THEN [doctree EXCEPT ![docname] = Append(@, call.node)]
                      ELSE doctree
        /\ docname' = IF call.outcome = "raised" THEN NoDoc ELSE docname
        /\ toread' = IF call.outcome = "raised" THEN {} ELSE toread
  /\ UNCHANGED <<resolved, writers, config, today, bib_content, page_defaults, builds, ndirectives,
                 stored, out_file, wlog>>

\* the read of the current document ends
EndDoc ==
  /\ docname # NoDoc
  /\ docname' = NoDoc
  /\ toread' = toread \ {docname}
  /\ UNCHANGED <<resolved, writers, config, today, bib_content, page_defaults, builds, ndirectives,
                 doctree, last, stored, out_file, wlog>>

----------------------------------------------------------------------------
(* The generated bibliography file *)

MaxWrites == 3   \* _write_bib_entry calls on one output file

\* the writer without the search for an entry of the key
_write_bib_entry_NoSearch(file, bib_key, bib_entry, io) ==
  LET existing_content == IF file.exists THEN file.text ELSE <<>>
      separator ==
        IF existing_content # <<>> /\ ~EndsWith(existing_content, <<"\n", "\n">>)
        THEN (IF EndsWith(existing_content, <<"\n">>) THEN <<"\n">> ELSE <<"\n", "\n">>)
        ELSE <<>>
  IN IF (file.exists /\ io = "noread") \/ io = "nowrite" THEN [result |-> FALSE, file |-> file]
     ELSE [ result |-> TRUE,
            file |-> [ exists |-> TRUE,
                       text |-> existing_content \o separator \o bib_entry \o <<"\n">> ] ]

\* the writer with a blank line added whatever the content ends with
_write_bib_entry_AlwaysBlankLine(file, bib_key, bib_entry, io) ==
  LET existing_content == IF file.exists THEN file.text ELSE <<>>
      separator == IF existing_content # <<>> THEN <<"\n", "\n">> ELSE <<>>
  IN IF file.exists /\ io = "noread" THEN [result |-> FALSE, file |-> file]
     ELSE IF HasEntryOpening(existing_content, bib_key) THEN [result |-> TRUE, file |-> file]
     ELSE IF io = "nowrite" THEN [result |-> FALSE, file |-> file]
     ELSE [ result |-> TRUE,
            file |-> [ exists |-> TRUE,
                       text |-> existing_content \o separator \o bib_entry \o <<"\n">> ] ]

\* _write_bib_entry(app, bib_key, bib_entry, output_file): [result, file];
\* io is "ok", "noread" (the file cannot be read) or "nowrite" (it cannot be written)
_write_bib_entry(file, bib_key, bib_entry, io) ==
  LET existing_content == IF file.exists THEN file.text ELSE <<>>
      separator ==
        IF existing_content # <<>> /\ ~EndsWith(existing_content, <<"\n", "\n">>)
        THEN (IF EndsWith(existing_content, <<"\n">>) THEN <<"\n">> ELSE <<"\n", "\n">>)
        ELSE <<>>
  IN IF file.exists /\ io = "noread" THEN [result |-> FALSE, file |-> file]
     ELSE IF HasEntryOpening(existing_content, bib_key) THEN [result |-> TRUE, file |-> file]
     ELSE IF io = "nowrite" THEN [result |-> FALSE, file |-> file]
     ELSE [ result |-> TRUE,
            file |-> [ exists |-> TRUE,
                       text |-> existing_content \o separator \o bib_entry \o <<"\n">> ] ]

\* one call of _write_bib_entry on the output file
WriteBibEntry(bib_key, bib_entry, io) ==
  /\ Len(wlog) < MaxWrites
  /\ LET r == _write_bib_entry(out_file, bib_key, bib_entry, io)
     IN /\ out_file' = r.file
        /\ wlog' = Append(wlog, [ key |-> bib_key, entry |-> bib_entry, io |-> io,
                                  result |-> r.result, before |-> out_file,
                                  after |-> r.file ])
  /\ UNCHANGED <<resolved, writers, config, today, bib_content, page_defaults, docname, toread, builds,
                 ndirectives, doctree, last, stored>>


----------------------------------------------------------------------------
(* Generation of bibliography entries *)

MaxScanned == 2   \* figures with a :bib: option found by one scan of the sources

\* "\n".join(lines)
RECURSIVE Join(_)
Join(lines) ==
  IF lines = <<>> THEN <<>>
  ELSE IF Len(lines) = 1 THEN lines[1]
  ELSE lines[1] \o <<"\n">> \o Join(Tail(lines))

\* metadata.get(k) is truthy
Has(metadata, k) == k \in DOMAIN metadata /\ metadata[k] # <<>>

\* the line "  field = {value},"
FieldLine(field, value) == <<"  ", field, " ", "=", " ", "{">> \o value \o <<"}", ",">>

\* re.match(r"\[([^\]]+)\]\(([^\)]+)\)", source): [ok, url]
MdLinkMatch(source) ==
  LET marks == LinkMarks(source)
      m == Min(marks)
      closes == { k \in (m + 1)..Len(source) : source[k] = ")" }
  IN IF /\ marks # {} /\ source[1] = "[" /\ m > 2
        /\ \A i \in 2..(m - 1) : source[i] # "]"
        /\ closes # {} /\ Min(closes) > m + 1
     THEN [ok |-> TRUE, url |-> SubSeq(source, m + 1, Min(closes) - 1)]
     ELSE [ok |-> FALSE, url |-> <<>>]

\* the lines of the date field
DateLines(date_str) ==
  IF strptime(date_str).ok
  THEN << FieldLine("year", <<strptime(date_str).year>>), FieldLine("date", date_str) >>
  ELSE << FieldLine("year", date_str) >>

\* the lines of the source field
SourceLines(source) ==
  LET url_lines(url) ==
        << FieldLine("url", url), FieldLine("howpublished", <<"\\url", "{">> \o url \o <<"}">>) >>
  IN IF IsHttp(source) THEN url_lines(source)
     ELSE IF source[1] = "[" /\ LinkMarks(source) # {}
       THEN (IF MdLinkMatch(source).ok THEN url_lines(MdLinkMatch(source).url) ELSE <<>>)
     ELSE << FieldLine("howpublished", source) >>

\* the generator with a line for every field of the record, present or not
BibLines_EveryField(key, metadata, image_path, caption) ==
  LET val(k) == IF k \in DOMAIN metadata THEN metadata[k] ELSE <<>>
  IN << <<"@misc{">> \o key \o <<",">>,
        FieldLine("author", val("author")),
        FieldLine("title", IF Truthy(caption) THEN Strip(caption.v)
                           ELSE <<"Figure:", " ">> \o image_path) >>
     \o DateLines(val("date"))
     \o << FieldLine("howpublished", val("source")),
           FieldLine("note", <<"License:", " ">> \o val("license")),
           FieldLine("copyright", val("copyright")),
           <<"}">> >>

\* bib_lines of _generate_bib_entry
BibLines(key, metadata, image_path, caption) ==
  << <<"@misc{">> \o key \o <<",">> >>
  \o (IF Has(metadata, "author") THEN <<FieldLine("author", metadata["author"])>> ELSE <<>>)
  \o << FieldLine("title", IF Truthy(caption) THEN Strip(caption.v)
                           ELSE <<"Figure:", " ">> \o image_path) >>
  \o (IF Has(metadata, "date") THEN DateLines(metadata["date"]) ELSE <<>>)
  \o (IF Has(metadata, "source") THEN SourceLines(metadata["source"]) ELSE <<>>)
  \o (IF Has(metadata, "license")
      THEN <<FieldLine("note", <<"License:", " ">> \o metadata["license"])>> ELSE <<>>)
  \o (IF Has(metadata, "copyright")
      THEN <<FieldLine("copyright", metadata["copyright"])>> ELSE <<>>)
  \o << <<"}">> >>

\* _generate_bib_entry(key, metadata, image_path, caption)
_generate_bib_entry(key, metadata, image_path, caption) ==
  Join(BibLines(key, metadata, image_path, caption))

\* the file name of the project's own bibliography
REFS == <<"refs.bib">>

\* _load_bib_files(app): the text of the files listed in bibtex_bibfiles, each
\* followed by a newline, or of every .bib file of the source directory when that
\* is empty; refs is the text of the project's own bibliography, file the
\* generated file, walk_output_first the order in which os.walk yields the two
_load_bib_files(cfg, refs, file, walk_output_first) ==
  LET bibtex_files == IF Truthy(cfg.bibtex_bibfiles) THEN cfg.bibtex_bibfiles.v ELSE <<>>
      output_file == MergeSettings(cfg.metadata_figure_settings).bib.output_file
      text(name) ==
        IF name = REFS THEN (IF refs # <<>> THEN refs \o <<"\n">> ELSE <<>>)
        ELSE IF name = output_file /\ file.exists THEN file.text \o <<"\n">>
        ELSE <<>>
      listed == IF Len(bibtex_files) = 0 THEN <<>>
                ELSE IF Len(bibtex_files) = 1 THEN text(bibtex_files[1])
                ELSE text(bibtex_files[1]) \o text(bibtex_files[2])
  IN IF listed # <<>> THEN listed
     ELSE IF walk_output_first THEN text(output_file) \o text(REFS)
     ELSE text(REFS) \o text(output_file)

\* the metadata fields a scanned figure gives to the generator
MetadataFields == {"author", "license", "date", "copyright", "source"}

\* the state of the loop of pre_generate_bib_entries before any figure
StartPass(bib_content0, file) ==
  [ raised |-> FALSE, bib_content |-> bib_content0, file |-> file,
    generated_count |-> 0, log |-> <<>> ]

\* the record the model keeps of one iteration of the loop
Iteration(fig, acc, step, entry, result, after) ==
  [ key |-> fig.key, options |-> fig.options, image_path |-> fig.image_path,
    caption |-> fig.caption, loaded |-> acc.bib_content, step |-> step,
    entry |-> entry, result |-> result, before |-> acc.file, after |-> after ]

\* one iteration of the loop without the test for an existing entry
PassFigure_NoExistingCheck(acc, fig, io) ==
  LET metadata == [ k \in MetadataFields \cap DOMAIN fig.options |-> fig.options[k] ]
      bib_entry == _generate_bib_entry(fig.key, metadata, fig.image_path, fig.caption)
      w == _write_bib_entry(acc.file, fig.key, bib_entry, io)
  IN IF DOMAIN metadata = {}
     THEN [ acc EXCEPT !.log = Append(@, Iteration(fig, acc, "nometadata", <<>>, FALSE, acc.file)) ]
     ELSE [ acc EXCEPT
              !.file = w.file,
              !.generated_count = IF w.result THEN @ + 1 ELSE @,
              !.bib_content = IF w.result THEN @ \o <<"\n">> \o bib_entry ELSE @,
              !.log = Append(@, Iteration(fig, acc, "generated", bib_entry, w.result, w.file)) ]

\* one iteration of the loop of pre_generate_bib_entries; a TypeError of
\* _parse_bib_entry ends the handler
PassFigure(acc, fig, io) ==
  LET parsed == _parse_bib_entry(acc.bib_content, fig.key)
      metadata == [ k \in MetadataFields \cap DOMAIN fig.options |-> fig.options[k] ]
      bib_entry == _generate_bib_entry(fig.key, metadata, fig.image_path, fig.caption)
      w == _write_bib_entry(acc.file, fig.key, bib_entry, io)
  IN IF acc.bib_content # <<>> /\ parsed.raised
     THEN [ acc EXCEPT !.raised = TRUE,
                       !.log = Append(@, Iteration(fig, acc, "raised", <<>>, FALSE, acc.file)) ]
     ELSE IF acc.bib_content # <<>> /\ parsed.found
     THEN [ acc EXCEPT !.log = Append(@, Iteration(fig, acc, "exists", <<>>, FALSE, acc.file)) ]
     ELSE IF DOMAIN metadata = {}
     THEN [ acc EXCEPT !.log = Append(@, Iteration(fig, acc, "nometadata", <<>>, FALSE, acc.file)) ]
     ELSE [ acc EXCEPT
              !.file = w.file,
              !.generated_count = IF w.result THEN @ + 1 ELSE @,
              !.bib_content = IF w.result THEN @ \o <<"\n">> \o bib_entry ELSE @,
              !.log = Append(@, Iteration(fig, acc, "generated", bib_entry, w.result, w.file)) ]

\* for bib_key, options, image_path, caption in figures_with_bib
RECURSIVE Pass(_, _, _)
Pass(figures_with_bib, acc, io) ==
  IF figures_with_bib = <<>> \/ acc.raised THEN acc
  ELSE Pass(Tail(figures_with_bib), PassFigure(acc, Head(figures_with_bib), io), io)

\* bibtex_bibfiles after a pass that generated entries
Registered(cfg) ==
  LET output_file == MergeSettings(cfg.metadata_figure_settings).bib.output_file
      listed == cfg.bibtex_bibfiles
  IN IF ~listed.some THEN Some(<<output_file>>)
     ELSE IF \E i \in 1..Len(listed.v) : listed.v[i] = output_file THEN listed
     ELSE Some(Append(listed.v, output_file))

\* pre_generate_bib_entries(app, config) on the config-inited event of a build:
\* bibtex_bibfiles is the value conf.py gives, figures_with_bib the result of the
\* scan of the sources
PreGenerateBibEntries(bibtex_bibfiles, figures_with_bib, io, walk_output_first) ==
  /\ builds = 0
  /\ builds' = 1
  /\ LET cfg == [ config EXCEPT !.bibtex_bibfiles = bibtex_bibfiles ]
         bib_settings == MergeSettings(cfg.metadata_figure_settings).bib
     IN IF ~bib_settings.generate_bib \/ figures_with_bib = <<>>
        THEN /\ config' = cfg
             /\ wlog' = <<>>
             /\ UNCHANGED out_file
        ELSE \E acc \in { Pass(figures_with_bib,
                               StartPass(_load_bib_files(cfg, bib_content, out_file,
                                                         walk_output_first), out_file),
                               io) } :
               /\ out_file' = acc.file
               /\ wlog' = acc.log
               /\ config' = IF ~acc.raised /\ acc.generated_count > 0
                            THEN [ cfg EXCEPT !.bibtex_bibfiles = Registered(cfg) ]
                            ELSE cfg
  /\ UNCHANGED <<resolved, writers, today, bib_content, page_defaults, docname, toread, ndirectives,
                 doctree, last, stored>>

----------------------------------------------------------------------------
(* Concurrent writers of the generated file *)

MaxWriters == 2   \* builds of the project running at the same time

Writers == 1..MaxWriters

\* a writer that has not been called
Idle ==
  [ pc |-> "idle", bib_key |-> <<>>, bib_entry |-> <<>>, existing_content |-> <<>>,
    result |-> FALSE ]

NoWriters == [w \in Writers |-> Idle]

\* a build calls _write_bib_entry(app, bib_key, bib_entry, output_file)
WriterCall(w, bib_key, bib_entry) ==
  /\ writers[w].pc = "idle"
  /\ writers' = [writers EXCEPT ![w] = [ Idle EXCEPT !.pc = "read", !.bib_key = bib_key,
                                                      !.bib_entry = bib_entry ]]
  /\ UNCHANGED <<resolved, config, today, bib_content, page_defaults, docname, toread, builds,
                 ndirectives, doctree, last, stored, out_file, wlog>>

\* the writer reads the file and searches it for an entry of its key; it returns
\* True when it finds one
WriterRead(w) ==
  /\ writers[w].pc = "read"
  /\ LET existing_content == IF out_file.exists THEN out_file.text ELSE <<>>
     IN writers' = [writers EXCEPT ![w] =
          IF HasEntryOpening(existing_content, writers[w].bib_key)
          THEN [ @ EXCEPT !.pc = "done", !.existing_content = existing_content,
                          !.result = TRUE ]
          ELSE [ @ EXCEPT !.pc = "write", !.existing_content = existing_content ]]
  /\ UNCHANGED <<resolved, config, today, bib_content, page_defaults, docname, toread, builds,
                 ndirectives, doctree, last, stored, out_file, wlog>>

\* the writer opens the file with mode "w" and writes what it read followed by
\* the separator and its entry
WriterWrite(w) ==
  /\ writers[w].pc = "write"
  /\ LET existing_content == writers[w].existing_content
         separator ==
           IF existing_content # <<>> /\ ~EndsWith(existing_content, <<"\n", "\n">>)
           THEN (IF EndsWith(existing_content, <<"\n">>) THEN <<"\n">> ELSE <<"\n", "\n">>)
           ELSE <<>>
     IN out_file' = [ exists |-> TRUE,
                      text |-> existing_content \o separator \o writers[w].bib_entry
                               \o <<"\n">> ]
  /\ writers' = [writers EXCEPT ![w] = [ @ EXCEPT !.pc = "done", !.result = TRUE ]]
  /\ UNCHANGED <<resolved, config, today, bib_content, page_defaults, docname, toread, builds,
                 ndirectives, doctree, last, stored, wlog>>
----------------------------------------------------------------------------
(* Captions of unnumbered figures, added when a doctree is resolved *)

MaxResolves == 2     \* doctree-resolved passes over the doctree of one document

NotResolved ==
  [ passes |-> [d \in Docs |-> 0], tree |-> [d \in Docs |-> <<>>], serial |-> 0 ]

\* a figure node of a doctree being resolved, with its ids
Unresolved(node) == [ figure |-> node, ids |-> <<>> ]

\* the visit of one figure without the test for a caption child
VisitFigure_NoCaptionTest(entry, serial) ==
  LET node == entry.figure
      has_license_html == node.license_html # NoDisplay
      has_original_caption == node.original_caption # "none"
  IN IF ~has_license_html /\ ~has_original_caption
     THEN [ entry |-> entry, serial |-> serial ]
     ELSE [ entry |->
              [ figure |-> [node EXCEPT !.caption = IF has_original_caption
                                                    THEN node.original_caption
                                                    ELSE "empty"],
                ids |-> IF entry.ids = <<>> THEN <<"figure", serial>> ELSE entry.ids ],
            serial |-> IF entry.ids = <<>> THEN serial + 1 ELSE serial ]

\* the body of the loop of add_unnumbered_caption for one figure node; serial is
\* the next env.new_serialno("figure"); the caption added is the original caption
\* or an empty one ("empty")
VisitFigure(entry, serial) ==
  LET node == entry.figure
      has_license_html == node.license_html # NoDisplay
      has_original_caption == node.original_caption # "none"
      has_caption == node.caption # "none"
  IN IF ~has_license_html /\ ~has_original_caption
     THEN [ entry |-> entry, serial |-> serial ]
     ELSE IF has_caption
     THEN [ entry |-> entry, serial |-> serial ]
     ELSE [ entry |->
              [ figure |-> [node EXCEPT !.caption = IF has_original_caption
                                                    THEN node.original_caption
                                                    ELSE "empty"],
                ids |-> IF entry.ids = <<>> THEN <<"figure", serial>> ELSE entry.ids ],
            serial |-> IF entry.ids = <<>> THEN serial + 1 ELSE serial ]

\* add_unnumbered_caption(app, doctree, fromdocname): [tree, serial]
RECURSIVE add_unnumbered_caption(_, _)
add_unnumbered_caption(tree, serial) ==
  IF tree = <<>> THEN [ tree |-> <<>>, serial |-> serial ]
  ELSE LET first == VisitFigure(Head(tree), serial)
           rest == add_unnumbered_caption(Tail(tree), first.serial)
       IN [ tree |-> <<first.entry>> \o rest.tree, serial |-> rest.serial ]

\* the doctree the event is emitted for: the doctree the read of d left, or the
\* one an earlier pass has resolved
TreeToResolve(d) ==
  IF resolved.passes[d] = 0
  THEN [ i \in 1..Len(doctree[d]) |-> Unresolved(doctree[d][i]) ]
  ELSE resolved.tree[d]

\* doctree-resolved is emitted for document d, which has been read
DoctreeResolved(d) ==
  /\ docname = NoDoc /\ d \notin toread /\ builds > 0
  /\ resolved.passes[d] < MaxResolves
  /\ \E pass \in { add_unnumbered_caption(TreeToResolve(d), resolved.serial) } :
       resolved' = [ resolved EXCEPT !.passes[d] = @ + 1, !.tree[d] = pass.tree,
                                     !.serial = pass.serial ]
  /\ UNCHANGED <<config, today, bib_content, page_defaults, docname, toread, builds,
                 ndirectives, doctree, last, stored, out_file, wlog, writers>>

----------------------------------------------------------------------------
(* Inputs *)

CC_BY == <<"CC", "-", "BY">>
CC_ZERO == <<"CC", "0">>
MIT == <<"MIT">>
PUBLIC_DOMAIN == <<"Public", " ", "Domain">>
LABEL_NL == <<"Publiek domein">>          \* the Dutch label of Public Domain
FOO == <<"Foo">>                          \* no recognized license
CC_FOO == <<"CC", "-", "Foo">>            \* no recognized license, CC prefix
GPL2 == <<"GPL", "-", "2.0">>             \* has a URL, is no recognized license

DATE_OK == <<"2024", "-", "03", "-", "05">>
DATE_PAGE == <<"2025", "-", "06", "-", "15">>
DATE_BAD == <<"15", "/", "01", "/", "2025">>
TODAY == <<"2025", "-", "12", "-", "31">>

\* the project's bibliography: k1 has every field the parser maps, k3 has an
\* empty howpublished, k5 gives its license by the Dutch label; k2 has no entry
BibText ==
  << "@misc{", "k1", ",", "\n",
       "author", " ", "=", " ", "{", "Jane", " ", "{", "van", "}", " ", "Doe", "}", ",",
       "year", "=", "{", "2020", "}", ",",
       "url", "=", "{", "http://x.test", "}", ",",
       "note", "=", "{", "License:", " ", "MIT", "}", ",",
       "copyright", "=", "{", "Jane", "}", "\n",
     "}", "\n",
     "@misc{", "k3", ",", "howpublished", "=", "{", "}", "}", "\n",
     "@article{", "k5", ",", "note", "=", "\"", "License:", " ", "Publiek domein", "\"", "}" >>

Dict1(k, x) == [kk \in {k} |-> x]

Config(user_settings, language) ==
  [ metadata_figure_settings |-> user_settings,
    author |-> Some(<<"Team">>),
    copyright |-> Some(<<"2025", ",", " ", "Team">>),
    language |-> language,
    bibtex_bibfiles |-> Some(<<REFS>>) ]

DefaultConfig == Config(EmptyDict, "en")

Figure(has_argument, content, options) ==
  [has_argument |-> has_argument, content |-> content, options |-> options]

\* figures every specification resolves: a plain one, one without image, caption
\* and :number: (the early return), one with both numbering flags
BasicFigures ==
  { Figure(TRUE, "text", EmptyDict),
    Figure(FALSE, "none", EmptyDict),
    Figure(TRUE, "text", [number |-> <<>>, nonumber |-> <<>>]) }

(* the build lifecycle: two documents, default configuration *)

LifecyclePageOptions ==
  { Dict1("license", MIT), [license |-> CC_ZERO, author |-> <<"Paul">>] }

LifecycleFigures ==
  { Figure(TRUE, "text", EmptyDict),
    Figure(TRUE, "text", Dict1("license", CC_BY)) }

(* license resolution *)

LicenseModes ==
  { EmptyDict, [individual |-> TRUE], [strict_check |-> TRUE],
    [strict_check |-> TRUE, individual |-> TRUE] }

LicenseSubstitutions ==
  { EmptyDict, [substitute_missing |-> TRUE],
    [substitute_missing |-> TRUE, default_license |-> LABEL_NL],
    [substitute_missing |-> TRUE, default_license |-> FOO] }

LicenseConfigs ==
  { Config([license |-> DictUnion(m, s), copyright |-> c], lang) :
      <<m, s, c, lang>> \in LicenseModes \X LicenseSubstitutions
                             \X {EmptyDict, [substitute_missing |-> TRUE]}
                             \X {"en", "nl"} }

LicensePageOptions ==
  { Dict1("license", CC_ZERO), Dict1("license", LABEL_NL), Dict1("license", <<>>) }

LicenseFigures ==
  BasicFigures \cup
  { Figure(TRUE, "text", o) :
      o \in { Dict1("license", <<>>), Dict1("license", CC_BY), Dict1("license", FOO),
              Dict1("license", CC_FOO), Dict1("license", LABEL_NL),
              Dict1("license", PUBLIC_DOMAIN), Dict1("license", GPL2),
              Dict1("bib", <<"k1">>), [bib |-> <<"k1">>, license |-> CC_BY],
              Dict1("bib", <<"k5">>), Dict1("bib", <<"k2">>),
              Dict1("date", DATE_BAD), [date |-> DATE_BAD, license |-> FOO] } }

(* resolution of all five fields *)

Fields == {"license", "author", "date", "copyright", "source"}

\* the value given to a field by a figure option and by a page default
ExplicitValue(field) ==
  CASE field = "license" -> CC_BY
    [] field = "author" -> <<"Ann">>
    [] field = "date" -> DATE_OK
    [] field = "copyright" -> <<"(c)", " ", "Ann">>
    [] field = "source" -> <<"http://e.test">>

PageValue(field) ==
  CASE field = "license" -> CC_ZERO
    [] field = "author" -> <<"Paul">>
    [] field = "date" -> DATE_PAGE
    [] field = "copyright" -> <<"(c)", " ", "Paul">>
    [] field = "source" -> <<"document">>

ResolveSubstitutions ==
  { EmptyDict } \cup
  { [ license |-> [substitute_missing |-> TRUE],
      author |-> [substitute_missing |-> TRUE],
      date |-> [substitute_missing |-> TRUE],
      copyright |-> [substitute_missing |-> TRUE, default_copyright |-> c] ] :
      c \in { <<"authoryear">>, <<"config">>, <<"authoryear-config">>,
              <<"config-authoryear">>, <<"All rights reserved">> } }

ResolveConfigs ==
  { Config(DictUnion(s, b), "en") :
      <<s, b>> \in ( ResolveSubstitutions \cup
                     { [ license |-> [substitute_missing |-> TRUE],
                         author |-> [substitute_missing |-> TRUE,
                                     default_author |-> <<"Staff">>],
                         date |-> [substitute_missing |-> TRUE,
                                   default_date |-> DATE_BAD],
                         copyright |-> [substitute_missing |-> TRUE] ] } )
                   \X {EmptyDict, [bib |-> [extract_metadata |-> FALSE]]} }

ResolvePageOptions ==
  { [f \in Fields |-> PageValue(f)],
    [license |-> <<>>, author |-> <<>>, date |-> DATE_BAD],
    Dict1("date", <<"today">>) }

ResolveFigures ==
  BasicFigures \cup
  { Figure(TRUE, "text", DictUnion(o, b)) :
      <<o, b>> \in ( {EmptyDict, Dict1("date", DATE_BAD), Dict1("date", <<"today">>)}
                     \cup { Dict1(f, ExplicitValue(f)) : f \in Fields }
                     \cup { Dict1(f, <<>>) : f \in Fields } )
                   \X {EmptyDict, Dict1("bib", <<"k1">>)} } \cup
  { Figure(TRUE, "text", Dict1("bib", <<"k2">>)),
    Figure(TRUE, "text", Dict1("bib", <<"k3">>)) }

(* attribution rendering *)

\* the metadata options of the rendered figures
RenderMetadata ==
  { EmptyDict,
    [ author |-> <<"Ann">>, license |-> CC_BY, date |-> DATE_OK,
      copyright |-> <<"(c)", " ", "Ann">>, source |-> <<"http://e.test">> ],
    [ license |-> FOO, source |-> <<"document">> ],
    [ license |-> GPL2, source |-> <<"a book">> ],
    [ author |-> <<"Ann">>, nonumber |-> <<>> ] }

RenderPlacements ==
  { EmptyDict } \cup
  { Dict1("placement", x) :
      x \in { <<"hide">>, <<"HIDE">>, <<"caption">>, <<" ", "Caption", " ">>,
              <<"margin">>, <<"admonition">>, <<"sidebar">> } }

RenderShows ==
  { EmptyDict, Dict1("show", <<"source", ",", " ", "Author", ",", "license">>),
    Dict1("show", <<"title">>) }

RenderFigures ==
  BasicFigures \cup
  { Figure(TRUE, "text", DictUnion(DictUnion(m, p), sh)) :
      <<m, p, sh>> \in RenderMetadata \X RenderPlacements \X RenderShows }

RenderConfigs ==
  { Config(Dict1("style", st), "en") :
      st \in { EmptyDict, Dict1("placement", <<"caption">>),
               [ placement |-> <<"admonition">>, admonition_title |-> <<"Credit">> ] } }
  \cup { Config([ style |-> Dict1("placement", <<"margin">>),
                  license |-> Dict1("link_license", FALSE) ], "en") }

RenderPageOptions ==
  { Dict1("placement", <<"margin">>),
    [ author |-> <<"Paul">>, show |-> <<"date", ",", "author">>,
      admonition_class |-> <<"note">> ] }

(* the generated bibliography file *)

NoFile == [exists |-> FALSE, text |-> <<>>]

\* an entry as the generator opens and closes it
EntryFor(key) == <<"@misc{">> \o key \o <<",", "\n", "title", "=", "{", "Fig", "}", "\n", "}">>

WriteKeys == { <<"k1">>, <<"k2">> }

WriteEntries == { EntryFor(<<"k1">>), EntryFor(<<"k2">>), <<"text">> }

WriteFiles ==
  { NoFile } \cup
  { [exists |-> TRUE, text |-> t] :
      t \in { <<>>, <<"text">>, <<"text", "\n">>, <<"text", "\n", "\n">>,
              <<"text", "\n", "\n", "\n">>,
              <<"@misc{", "K1", ",", "\n", "}", "\n">> } }

(* generation of bibliography entries before the build *)

OUT == <<"_generated_figures.bib">>

\* a bibliography whose entry for k1 has no field the parser maps
TitleOnlyText == <<"@misc{", "k1", ",", "title", "=", "{", "Fig", "}", "}">>

\* a bibliography with an entry for k2
AuthorText == <<"@misc{", "k2", ",", "author", "=", "{", "Jane", "}", "}">>

GenBibTexts == { <<>>, BibText, TitleOnlyText, AuthorText }

GenFiles ==
  { NoFile,
    [exists |-> TRUE, text |-> EntryFor(<<"k1">>) \o <<"\n">>],
    [exists |-> TRUE, text |-> <<"text", "\n">>] }

GenConfigs == { DefaultConfig, Config(Dict1("bib", Dict1("generate_bib", TRUE)), "en") }

Scanned(key, options, caption) ==
  [ key |-> key, options |-> DictUnion(options, Dict1("bib", key)),
    image_path |-> <<"fig.png">>, caption |-> caption ]

\* the figure directives with a :bib: option of the sources, in the order of the scan
SourceFigures ==
  << Scanned(<<"k2">>, Dict1("source", <<"[", "](", "u", ")">>), None),
     Scanned(<<"k2">>, [license |-> MIT, date |-> DATE_OK], Some(<<" ", "Fig", " ">>)),
     Scanned(<<"k2">>, [source |-> <<"[", "text", "](", "http://e.test", ")">>,
                        author |-> <<>>], None),
     Scanned(<<"k1">>, [author |-> <<"Ann">>, date |-> DATE_BAD,
                        source |-> <<"http://x.test">>,
                        copyright |-> <<"(c)", " ", "Ann">>], Some(<<"Fig">>)),
     Scanned(<<"k1">>, EmptyDict, Some(<<"Fig">>)),
     Scanned(<<"k3">>, Dict1("source", <<"a book">>), None),
     Scanned(<<"k2">>, Dict1("source", <<"[", "a", "]">>), Some(<<"Fig">>)) >>

\* the results of a scan: at most MaxScanned of the figures, in their order
ScanResults ==
  { [ i \in 1..Len(ix) |-> SourceFigures[ix[i]] ] :
      ix \in { s \in UNION { [1..n -> 1..Len(SourceFigures)] : n \in 0..MaxScanned } :
                 \A i, j \in 1..Len(s) : i < j => s[i] < s[j] } }

\* the figures whose entries concurrent builds write
RaceFigures == { SourceFigures[2], SourceFigures[4], SourceFigures[7] }

BibFileLists == { None, Some(<<REFS>>), Some(<<REFS, OUT>>) }

(* bibliography entries with a year, a date or both *)

Entry(key, fields) == <<"@misc{">> \o key \o <<",">> \o fields \o <<"}">>

Braced(name, value) == <<name, "=", "{">> \o value \o <<"}", ",">>

Quoted(name, value) == <<name, " ", "=", " ", "\"">> \o value \o <<"\"", ",", "\n">>

ParseTexts ==
  { BibText,
    Entry(<<"k1">>, Braced("year", <<"2020">>) \o Braced("date", DATE_OK)),
    Entry(<<"k1">>, Braced("date", DATE_OK) \o Braced("year", <<"2020">>)),
    Entry(<<"k1">>, Quoted("date", <<" ">> \o DATE_OK \o <<" ">>)
                    \o Braced("author", <<"Jane">>) \o Quoted("year", <<"2020">>)),
    Entry(<<"k1">>, Braced("year", <<"2020">>) \o Braced("author", <<"Jane">>)),
    Entry(<<"k1">>, Braced("date", <<>>) \o Braced("year", <<"2020">>)),
    Entry(<<"k1">>, Braced("year", <<>>) \o Braced("author", <<"Jane">>)),
    Entry(<<"k1">>, Quoted("howpublished", <<>>) \o Quoted("note", <<>>)
                    \o Quoted("year", <<>>)),
    Entry(<<"k1">>, Braced("year", <<"2020">>) \o Braced("note", <<>>)),
    Entry(<<"k1">>, Braced("url", <<"http://x.test">>)
                    \o Braced("howpublished", <<"a book">>)),
    Entry(<<"k1">>, Braced("howpublished", <<"a book">>)
                    \o Braced("url", <<"http://x.test">>)),
    Entry(<<"k1">>, Braced("howpublished", <<"\\url", "{", "http://e.test", "}">>)),
    Entry(<<"k1">>, Braced("howpublished", <<"a book">>)),
    Entry(<<"k1">>, Quoted("url", <<" ", "http://x.test", " ">>)),
    Entry(<<"k1">>, Braced("url", <<"http://x.test">>) \o Braced("howpublished", <<>>)) }

ParseConfigs ==
  { DefaultConfig, Config(Dict1("date", Dict1("substitute_missing", TRUE)), "en") }

ParsePageOptions == { Dict1("date", DATE_PAGE) }

ParseFigures ==
  BasicFigures \cup
  { Figure(TRUE, "text", o) :
      o \in { Dict1("bib", <<"k1">>), Dict1("bib", <<"K1">>), Dict1("bib", <<"k2">>),
              Dict1("bib", <<"k3">>), [bib |-> <<"k1">>, date |-> DATE_BAD] } }

(* copyright substitution *)

CopyrightStrategies ==
  { <<"authoryear">>, <<"config">>, <<"authoryear-config">>, <<"config-authoryear">>,
    <<"All rights reserved">> }

\* every strategy, with and without substituted author and date, with and without
\* a copyright in conf.py
CopyrightConfigs ==
  { [ Config([ copyright |-> [substitute_missing |-> TRUE, default_copyright |-> c],
               author |-> [substitute_missing |-> a],
               date |-> [substitute_missing |-> d] ], "en")
      EXCEPT !.copyright = cp ] :
      <<c, a, d, cp>> \in CopyrightStrategies \X BOOLEAN \X BOOLEAN
                          \X { None, Some(<<"2025", ",", " ", "Team">>) } }

CopyrightPageOptions == { Dict1("author", <<"Paul">>) }

CopyrightFigures ==
  BasicFigures \cup
  { Figure(TRUE, "text", o) :
      o \in { Dict1("date", DATE_OK), Dict1("date", DATE_BAD), Dict1("author", <<"Ann">>),
              [author |-> <<"Ann">>, date |-> DATE_OK],
              Dict1("copyright", <<"(c)", " ", "Ann">>), Dict1("bib", <<"k1">>) } }

----------------------------------------------------------------------------
(* Specifications *)

InitWith(configs, bibtexts, files) ==
  /\ config \in configs
  /\ today = TODAY
  /\ bib_content \in bibtexts
  /\ page_defaults = EmptyDict
  /\ docname = NoDoc
  /\ toread = {}
  /\ builds = 0
  /\ ndirectives = 0
  /\ doctree = [d \in Docs |-> <<>>]
  /\ last = NoCall
  /\ stored = [d \in Docs |-> [now |-> EmptyDict, before |-> EmptyDict]]
  /\ out_file \in files
  /\ wlog = <<>>
  /\ writers = NoWriters
  /\ resolved = NotResolved

\* builds of a project of two documents under the default configuration
Init == InitWith({DefaultConfig}, {<<>>}, {NoFile})

Next ==
  \/ \E docnames \in SUBSET Docs : BeforeReadDocs(docnames)
  \/ \E d \in Docs : ReadDoc(d)
  \/ \E o \in LifecyclePageOptions : DefaultMetadataPageRun(o)
  \/ \E f \in LifecycleFigures : MetadataFigureRun(f.has_argument, f.content, f.options)
  \/ EndDoc

Spec == Init /\ [][Next]_vars

\* the state in the first read of document d1, after at most one
\* default-metadata-page directive with options from pageoptions
InitReadingWith(configs, pageoptions, bibtexts) ==
  /\ config \in configs
  /\ today = TODAY
  /\ bib_content \in bibtexts
  /\ \E pd \in {EmptyDict} \cup { Dict1("d1", o) : o \in pageoptions } :
       /\ page_defaults = pd
       /\ ndirectives = IF pd = EmptyDict THEN 0 ELSE 1
       /\ stored = [d \in Docs |-> [now |-> PageDefaultsOf(pd, d), before |-> EmptyDict]]
  /\ docname = "d1"
  /\ toread = {"d1"}
  /\ builds = 1
  /\ doctree = [d \in Docs |-> <<>>]
  /\ last = NoCall
  /\ out_file = NoFile
  /\ wlog = <<>>
  /\ writers = NoWriters
  /\ resolved = NotResolved

\* the same with the bibliography every specification of one document reads
InitReading(configs, pageoptions) == InitReadingWith(configs, pageoptions, {BibText})

\* figures of one document: license resolution under every license setting
InitLicense == InitReading(LicenseConfigs, LicensePageOptions)

NextLicense ==
  \E f \in LicenseFigures : MetadataFigureRun(f.has_argument, f.content, f.options)

SpecLicense == InitLicense /\ [][NextLicense]_vars

\* figures of one document: resolution of every field from every layer
InitResolve == InitReading(ResolveConfigs, ResolvePageOptions)

NextResolve ==
  \E f \in ResolveFigures : MetadataFigureRun(f.has_argument, f.content, f.options)

SpecResolve == InitResolve /\ [][NextResolve]_vars

\* calls of _write_bib_entry on one output file
InitBib == InitWith({DefaultConfig}, {<<>>}, WriteFiles)

NextBib ==
  \E k \in WriteKeys, e \in WriteEntries, io \in {"ok", "noread", "nowrite"} :
    WriteBibEntry(k, e, io)

SpecBib == InitBib /\ [][NextBib]_vars


\* figures of one document: attribution rendering under every placement
InitRender == InitReading(RenderConfigs, RenderPageOptions)

NextRender ==
  \E f \in RenderFigures : MetadataFigureRun(f.has_argument, f.content, f.options)

SpecRender == InitRender /\ [][NextRender]_vars

\* the config-inited event of one build, for every bibliography and output file
InitGen == InitWith(GenConfigs, GenBibTexts, GenFiles)

NextGen ==
  \E b \in BibFileLists, figs \in ScanResults, io \in {"ok", "nowrite"} :
    \E first \in (IF b = None THEN BOOLEAN ELSE {FALSE}) :
      PreGenerateBibEntries(b, figs, io, first)

SpecGen == InitGen /\ [][NextGen]_vars

\* two builds of one project started together, each writing one entry
InitRace == InitWith({DefaultConfig}, {<<>>}, WriteFiles)

NextRace ==
  \/ \E w \in Writers, f \in RaceFigures :
       WriterCall(w, f.key,
                  _generate_bib_entry(f.key, [ k \in MetadataFields \cap DOMAIN f.options |->
                                                 f.options[k] ], f.image_path, f.caption))
  \/ \E w \in Writers : WriterRead(w)
  \/ \E w \in Writers : WriterWrite(w)

SpecRace == InitRace /\ [][NextRace]_vars

\* figures of one document that take their metadata from a bibliography entry
InitParse == InitReadingWith(ParseConfigs, ParsePageOptions, ParseTexts)

NextParse ==
  \E f \in ParseFigures : MetadataFigureRun(f.has_argument, f.content, f.options)

SpecParse == InitParse /\ [][NextParse]_vars

\* figures of one document without a copyright of their own, under every
\* substitution strategy
InitCopyright == InitReading(CopyrightConfigs, CopyrightPageOptions)

NextCopyright ==
  \E f \in CopyrightFigures : MetadataFigureRun(f.has_argument, f.content, f.options)

SpecCopyright == InitCopyright /\ [][NextCopyright]_vars

(* captions and numbering *)

CaptionNumbering ==
  { EmptyDict, [number |-> <<>>], [nonumber |-> <<>>],
    [number |-> <<>>, nonumber |-> <<>>] }

CaptionPlacements ==
  { Dict1("placement", x) : x \in { <<"caption">>, <<"admonition">>, <<"hide">> } }

CaptionMetadata == { EmptyDict, [ author |-> <<"Ann">>, license |-> CC_BY ] }

CaptionFigures ==
  { Figure(TRUE, c, DictUnion(DictUnion(n, p), m)) :
      <<c, n, p, m>> \in {"text", "none"} \X CaptionNumbering \X CaptionPlacements
                         \X CaptionMetadata }
  \cup { Figure(FALSE, "none", EmptyDict),
         Figure(FALSE, "none", [number |-> <<>>, placement |-> <<"caption">>,
                                author |-> <<"Ann">>]) }

\* one document read and its doctree resolved
InitCaption == InitReading({DefaultConfig}, {EmptyDict})

NextCaption ==
  \/ \E f \in CaptionFigures : MetadataFigureRun(f.has_argument, f.content, f.options)
  \/ EndDoc
  \/ \E d \in Docs : DoctreeResolved(d)

SpecCaption == InitCaption /\ [][NextCaption]_vars

(* license display forms *)

\* every recognized license, every key of the URL table, and two other values
DisplayLicenses ==
  VALID_LICENSES \cup { p[1] : p \in LICENSE_URLS } \cup { FOO, CC_FOO }

DisplayFigures ==
  { Figure(TRUE, "text", DictUnion(Dict1("license", l), p)) :
      <<l, p>> \in DisplayLicenses \X CaptionPlacements }

\* figures of one document, each with a license of its own, identity localization
InitDisplay == InitReading({DefaultConfig}, {EmptyDict})

NextDisplay ==
  \E f \in DisplayFigures : MetadataFigureRun(f.has_argument, f.content, f.options)

SpecDisplay == InitDisplay /\ [][NextDisplay]_vars

(* generation followed by parsing *)

\* the values of the records: a date in YYYY-MM-DD format, sources that are a URL
\* or plain text
RoundTripValues ==
  [ author |-> { <<>>, <<"Ann">>, <<"Jane", " ", "Doe">>, <<"Jane", "  ", "Doe">>,
                 <<"{", "NASA", "}">> },
    date |-> { <<>>, DATE_OK },
    source |-> { <<>>, <<"http://x.test">>, <<"a book">>, <<"http://e.test/u@n">> },
    license |-> { <<>>, MIT, CC_BY },
    copyright |-> { <<>>, <<"(c)", " ", "Ann">> } ]

\* the record of the given values, absent fields left out
Record(values) ==
  [ k \in { f \in MetadataFields : values[f] # <<>> } |-> values[k] ]

RoundTripRecords ==
  { Record([ author |-> a, date |-> d, source |-> s, license |-> l, copyright |-> c ]) :
      <<a, d, s, l, c>> \in RoundTripValues.author \X RoundTripValues.date \X
                            RoundTripValues.source \X RoundTripValues.license \X
                            RoundTripValues.copyright }
  \ { EmptyDict }

RoundTripFigures ==
  { Scanned(key, r, caption) :
      <<key, r, caption>> \in {<<"k1">>, <<"k2">>} \X RoundTripRecords \X
                              {None, Some(<<"Fig">>)} }

\* a project without bibliography whose sources hold one figure with a :bib: option
InitRoundTrip ==
  InitWith({Config(Dict1("bib", Dict1("generate_bib", TRUE)), "en")}, {<<>>}, {NoFile})

NextRoundTrip ==
  \E f \in RoundTripFigures : PreGenerateBibEntries(Some(<<REFS>>), <<f>>, "ok", FALSE)

SpecRoundTrip == InitRoundTrip /\ [][NextRoundTrip]_vars

----------------------------------------------------------------------------
(* Properties of metadata resolution *)

\* the first non-empty value of a sequence of optional values, None if there is none
RECURSIVE FirstNonEmpty(_)
FirstNonEmpty(layers) ==
  IF layers = <<>> THEN None
  ELSE IF Truthy(Head(layers)) THEN Head(layers)
  ELSE FirstNonEmpty(Tail(layers))

\* the settings in force
Settings == MergeSettings(config.metadata_figure_settings)

\* the bibliography layer of the last call: the parsed entry, only when a bib key
\* is given, extraction is enabled and the entry parsed
BibLayer(field) ==
  LET key == Get(last.options, "bib")
  IN IF Truthy(key) /\ Settings.bib.extract_metadata
        /\ ~_parse_bib_entry(bib_content, key.v).raised
        /\ _parse_bib_entry(bib_content, key.v).found
     THEN GetOpt(_parse_bib_entry(bib_content, key.v).metadata, field)
     ELSE None

\* the three document layers of a field in the last call, highest first
DocLayers(field) ==
  << Get(last.options, field), BibLayer(field), Get(last.page_defaults, field) >>

\* the value a field of the figure node holds, None when the node has no such field
Attr(field) == Get(last.node.attrs, field)

\* an optional value as the node keeps it: empty values are not stored
Kept(x) == IF Truthy(x) THEN x ELSE None

\* the layers of each field with the configuration layer, and the value expected
ExpectedLicense ==
  LET x == FirstNonEmpty(DocLayers("license") \o
             (IF Settings.license.substitute_missing
              THEN <<Some(Settings.license.default_license)>> ELSE <<>>))
  IN IF Truthy(x)
     THEN Some(DisplayLicense(config.language, untranslate_license(x.v)))
     ELSE None

ExpectedDate ==
  LET x == FirstNonEmpty(DocLayers("date") \o
             (IF Settings.date.substitute_missing
              THEN <<Some(Settings.date.default_date)>> ELSE <<>>))
  IN IF Truthy(x) /\ x.v = <<"today">> THEN Some(today) ELSE Kept(x)

ExpectedAuthor ==
  Kept(FirstNonEmpty(DocLayers("author") \o
         (IF Settings.author.substitute_missing
          THEN <<IF Settings.author.default_author = <<"config">>
                 THEN config.author ELSE Some(Settings.author.default_author)>>
          ELSE <<>>)))

ExpectedCopyright ==
  Kept(FirstNonEmpty(DocLayers("copyright") \o
         (IF Settings.copyright.substitute_missing
          THEN <<_resolve_copyright(Settings.copyright.default_copyright,
                                    ExpectedAuthor, ExpectedDate, config).value>>
          ELSE <<>>)))

ExpectedSource ==
  LET x == FirstNonEmpty(DocLayers("source"))
  IN IF Truthy(x) /\ x.v = <<"document">>
     THEN Some(<<"[", "Source code", "](", "/_sources/", last.doc, ".md", ")">>)
     ELSE Kept(x)

\* C1: for license, author, date and copyright the value a produced figure carries
\* is the first non-empty of the explicit option, the bibliography value, the page
\* default and the configured substitution (when enabled), and for source the
\* first non-empty of the first three; a higher layer wins whatever the lower hold
C1_Precedence ==
  last.outcome = "ok" =>
    /\ Attr("license") = ExpectedLicense
    /\ Attr("author") = ExpectedAuthor
    /\ Attr("date") = ExpectedDate
    /\ Attr("copyright") = ExpectedCopyright
    /\ Attr("source") = ExpectedSource

\* a figure with an explicit author, a bibliography author, a page-default author
\* and author substitution enabled carries the explicit one
C1_Witness ==
  /\ last.outcome = "ok"
  /\ Get(last.options, "author") = Some(<<"Ann">>)
  /\ BibLayer("author") = Some(<<"Jane", " ", "van", " ", "Doe">>)
  /\ Get(last.page_defaults, "author") = Some(<<"Paul">>)
  /\ Settings.author.substitute_missing
  /\ Attr("author") = Some(<<"Ann">>)

----------------------------------------------------------------------------
(* Properties of license validation *)

\* the license candidate of the last call: the first non-empty of the document
\* layers and, when substitution is enabled, the configured default
LicenseCandidate ==
  FirstNonEmpty(DocLayers("license") \o
    (IF Settings.license.substitute_missing
     THEN <<Some(Settings.license.default_license)>> ELSE <<>>))

\* the candidate is absent, or its canonical key is not a recognized license
LicenseAbsent == ~Truthy(LicenseCandidate)
LicenseUnrecognized ==
  Truthy(LicenseCandidate) /\ untranslate_license(LicenseCandidate.v) \notin VALID_LICENSES

LicenseExceptions == {"license_missing", "license_unrecognized"}

\* the last call passed the initial argument check
PastArgumentCheck == last.outcome \in {"ok", "raised"}

\* the number of license diagnostics the last call logged
LicenseWarnings ==
  Cardinality({ i \in 1..Len(last.warnings) : last.warnings[i] \in LicenseExceptions })

\* C2: under strict_check a figure past the argument check whose license is absent
\* or unrecognized ends in a raise with no figure node and no metadata, whatever
\* 'individual' is; a recognized license raises no license failure
C2_StrictCheck ==
  (Settings.license.strict_check /\ PastArgumentCheck) =>
    /\ (LicenseAbsent \/ LicenseUnrecognized) =>
         /\ last.outcome = "raised"
         /\ last.node = NoNode
         /\ LicenseWarnings = 0
    /\ ~(LicenseAbsent \/ LicenseUnrecognized) => last.exc \notin LicenseExceptions

\* strict_check and individual both enabled, an unrecognized explicit license: raised
C2_Witness ==
  /\ Settings.license.strict_check /\ Settings.license.individual
  /\ Get(last.options, "license") = Some(FOO)
  /\ last.outcome = "raised" /\ last.exc = "license_unrecognized"
  /\ last.node = NoNode

\* C3: without strict_check a missing or unrecognized license logs exactly one
\* warning when 'individual' is enabled and nothing otherwise, the figure is still
\* produced, and an unrecognized value is stored on the figure
C3_NonStrict ==
  (~Settings.license.strict_check /\ PastArgumentCheck
     /\ (LicenseAbsent \/ LicenseUnrecognized)) =>
    /\ LicenseWarnings = (IF Settings.license.individual THEN 1 ELSE 0)
    /\ last.outcome = "ok"
    /\ LicenseUnrecognized => "license" \in DOMAIN last.node.attrs

\* C4: the license attached to the figure is the canonical key obtained after
\* untranslate, unchanged by localization, the "CC-" expansion and the " 4.0" suffix
C4_StoredCanonical ==
  (last.outcome = "ok" /\ Truthy(LicenseCandidate)) =>
    Attr("license") = Some(untranslate_license(LicenseCandidate.v))

\* C5: a present license candidate is normalized, then validated, then localized:
\* whatever layer it came from, the verdict is that of its canonical key, and the
\* value attached is the display form of that key; a localized label of a
\* recognized key never gets the unrecognized-license handling
C5_NormalizeValidateLocalize ==
  (PastArgumentCheck /\ last.exc # "TypeError" /\ Truthy(LicenseCandidate)) =>
    LET key == untranslate_license(LicenseCandidate.v)
    IN /\ last.canonical = Some(key)
       /\ key \in VALID_LICENSES =>
            LicenseWarnings = 0 /\ last.exc \notin LicenseExceptions
       /\ (key \notin VALID_LICENSES /\ Settings.license.strict_check) =>
            last.exc = "license_unrecognized"
       /\ (key \notin VALID_LICENSES /\ ~Settings.license.strict_check
             /\ Settings.license.individual) =>
            last.warnings # <<>> /\ LicenseWarnings = 1
       /\ last.outcome = "ok" =>
            Attr("license") = Some(DisplayLicense(config.language, key))

\* under strict_check and the Dutch catalog, a figure whose license comes from the
\* bibliography as the Dutch label of Public Domain is produced, with the label
C5_Witness ==
  /\ Settings.license.strict_check /\ config.language = "nl"
  /\ LicenseCandidate = Some(LABEL_NL)
  /\ BibLayer("license") = Some(LABEL_NL)
  /\ LABEL_NL \notin VALID_LICENSES
  /\ last.outcome = "ok" /\ LicenseWarnings = 0
  /\ Attr("license") = Some(LABEL_NL)

----------------------------------------------------------------------------
(* Properties of date validation *)

\* C6: a resolved date that is not in YYYY-MM-DD format, whatever layer supplied
\* it, is warned about, does not abort the figure, and is kept literally as the
\* figure's date, under every configuration of copyright substitution
C6_BadDateWarnsOnly ==
  (PastArgumentCheck /\ last.exc \notin ({"TypeError"} \cup LicenseExceptions)
     /\ Truthy(ExpectedDate) /\ ~strptime(ExpectedDate.v).ok) =>
    /\ last.outcome = "ok"
    /\ \E i \in 1..Len(last.warnings) : last.warnings[i] = "date_format"
    /\ Attr("date") = ExpectedDate

----------------------------------------------------------------------------
(* Properties of the generated bibliography file *)

\* the entry opens as the generator opens the entry of that key
OpensWith(bib_entry, bib_key) == StartsWith(bib_entry, <<"@misc{">> \o bib_key \o <<",">>)

\* the number of newlines text ends with
RECURSIVE TrailingNewlines(_)
TrailingNewlines(text) ==
  IF text # <<>> /\ text[Len(text)] = "\n"
  THEN 1 + TrailingNewlines(SubSeq(text, 1, Len(text) - 1))
  ELSE 0

\* n newlines
Newlines(n) == [i \in 1..n |-> "\n"]

\* the calls that appended an entry to non-empty content without an entry of the key
Appends ==
  { i \in 1..Len(wlog) :
      /\ wlog[i].result /\ wlog[i].after # wlog[i].before
      /\ wlog[i].before.text # <<>>
      /\ ~HasEntryOpening(wlog[i].before.text, wlog[i].key) }

\* C7 as stated: whatever the content, the key and the entry, after a successful
\* call a second call with the same key succeeds and leaves the content as it was
C7_Idempotent ==
  \A i \in 1..(Len(wlog) - 1) :
    (wlog[i].result /\ wlog[i+1].key = wlog[i].key) =>
      wlog[i+1].result /\ wlog[i+1].after = wlog[i].after

\* C7 amended: after a successful call whose entry opens with its key, a second
\* call with the same key that can read the file succeeds and leaves the content
\* as it was
C7_IdempotentForKeyedEntry ==
  \A i \in 1..(Len(wlog) - 1) :
    (wlog[i].result /\ wlog[i+1].key = wlog[i].key
       /\ OpensWith(wlog[i].entry, wlog[i].key) /\ wlog[i+1].io # "noread") =>
      wlog[i+1].result /\ wlog[i+1].after = wlog[i].after

\* a call appended the entry of its key and the next call, with the same key and
\* another entry, succeeded without changing the file
C7_Witness ==
  \E i \in 1..(Len(wlog) - 1) :
    /\ wlog[i].result /\ wlog[i].after # wlog[i].before
    /\ OpensWith(wlog[i].entry, wlog[i].key)
    /\ wlog[i+1].key = wlog[i].key /\ wlog[i+1].entry # wlog[i].entry
    /\ wlog[i+1].result /\ wlog[i+1].after = wlog[i].after

\* C8 as stated: an appended entry follows the prior content after exactly one
\* blank line, whatever number of newlines the prior content ends with, and the
\* prior content is kept as a prefix
C8_OneBlankLine ==
  \A i \in Appends :
    LET before == wlog[i].before.text
        n == TrailingNewlines(before)
    IN /\ StartsWith(wlog[i].after.text, before)
       /\ wlog[i].after.text =
            SubSeq(before, 1, Len(before) - n) \o Newlines(2) \o wlog[i].entry \o <<"\n">>

\* C8 amended: the prior content is kept as a prefix; newlines are added to bring
\* its trailing newlines to two, so exactly one blank line separates the entry
\* when the prior content ends with at most two newlines, and nothing is added
\* when it ends with more
C8_BlankLineUpToTwoNewlines ==
  \A i \in Appends :
    LET before == wlog[i].before.text
        n == TrailingNewlines(before)
    IN wlog[i].after.text =
         before \o Newlines(IF n < 2 THEN 2 - n ELSE 0) \o wlog[i].entry \o <<"\n">>

\* entries were appended to content ending with one newline and to content
\* ending with three
C8_Witness ==
  /\ \E i \in Appends : TrailingNewlines(wlog[i].before.text) = 1
  /\ \E i \in Appends : TrailingNewlines(wlog[i].before.text) = 3

----------------------------------------------------------------------------
(* Properties of page defaults *)

\* C9: a page default a directive of the document set is applied to every figure
\* of the document without an explicit or bibliography value for the field,
\* whether the figure stands before or after the directive
C9_AppliedWhateverPosition ==
  (last.outcome = "ok" /\ docname = last.doc) =>
    LET set == stored[docname].now
    IN /\ ("author" \in DOMAIN set /\ "author" \notin DOMAIN last.options
             /\ ~Truthy(BibLayer("author"))) =>
            Attr("author") = Some(set["author"])
       /\ ("license" \in DOMAIN set /\ "license" \notin DOMAIN last.options
             /\ ~Truthy(BibLayer("license"))) =>
            Attr("license") =
              Some(DisplayLicense(config.language, untranslate_license(set["license"])))

\* C10: a figure sees exactly the page defaults the directives of its document
\* stored during the current read of the document; what an earlier read stored
\* is gone
C10_ClearedOnReread ==
  last.outcome # "none" => last.page_defaults = last.stored.now

\* in a second build, a figure of a document whose earlier read stored defaults
\* is resolved before any directive of the current read: it sees no defaults
C10_Witness ==
  /\ builds = 2
  /\ last.outcome = "ok"
  /\ last.stored.before # EmptyDict
  /\ last.stored.now = EmptyDict
  /\ last.page_defaults = EmptyDict
  /\ "license" \notin DOMAIN last.node.attrs

----------------------------------------------------------------------------
(* Properties of attribution rendering *)

\* the placement of the last call: the first non-empty of the option, the page
\* default and the style setting, stripped and lowercased
PlacementInForce ==
  LowerSeq(Strip(FirstNonEmpty(<< Get(last.options, "placement"),
                                  Get(last.page_defaults, "placement"),
                                  Some(Settings.style.placement) >>).v))

\* the show list of the last call, as given
ShowInForce ==
  FirstNonEmpty(<< Get(last.options, "show"), Get(last.page_defaults, "show"),
                   Some(Settings.style.show) >>).v

\* the field is named in the show list
Shown(field) ==
  \E i \in 1..Len(ShowInForce) :
    /\ Lower(ShowInForce[i]) = field
    /\ (i = 1 \/ ShowInForce[i - 1] = "," \/ IsWs(ShowInForce[i - 1]))
    /\ (i = Len(ShowInForce) \/ ShowInForce[i + 1] = "," \/ IsWs(ShowInForce[i + 1]))

FieldOrder == <<"author", "license", "date", "copyright", "source">>

\* the fields present on the figure and named in the show list, in the fixed order
RECURSIVE DisplayedFrom(_)
DisplayedFrom(i) ==
  IF i > Len(FieldOrder) THEN <<>>
  ELSE (IF FieldOrder[i] \in DOMAIN last.node.attrs /\ Shown(FieldOrder[i])
        THEN <<FieldOrder[i]>> ELSE <<>>) \o DisplayedFrom(i + 1)

\* the fields of the parts the renderer produced
PartFields == [ i \in 1..Len(last.display.parts) |-> last.display.parts[i].field ]

\* C11: with placement hide the renderer returns empty output whatever the
\* metadata, the show list, the title, the class and link_license are, and nothing
\* is attached: no license_html, no node before or after the figure
C11_HideIsEmpty ==
  (last.outcome = "ok" /\ PlacementInForce = <<"hide">>) =>
    /\ last.display = NoDisplay
    /\ last.node.license_html = NoDisplay
    /\ last.returned = <<"figure">>

\* a figure with all five fields, all shown, under a caption style setting and an
\* explicit placement HIDE
C11_Witness ==
  /\ last.outcome = "ok"
  /\ Get(last.options, "placement") = Some(<<"HIDE">>)
  /\ Settings.style.placement = <<"caption">>
  /\ DOMAIN last.node.attrs = Fields
  /\ DisplayedFrom(1) = FieldOrder
  /\ last.display = NoDisplay /\ last.returned = <<"figure">>

\* C12: for a placement other than hide the parts are exactly the fields present
\* on the figure and named in the show list, in the order author, license, date,
\* copyright, source whatever the order of the show list; when there is none the
\* output is empty, without span or admonition
C12_PartsAreShownFields ==
  (last.outcome = "ok" /\ PlacementInForce # <<"hide">>) =>
    /\ PartFields = DisplayedFrom(1)
    /\ (DisplayedFrom(1) = <<>>) <=> (last.display.kind = "empty")
    /\ last.display.kind = "empty" => last.display = NoDisplay

\* a show list naming source before author: the parts are author, license, source
C12_Witness ==
  /\ last.outcome = "ok" /\ PlacementInForce = <<"caption">>
  /\ ShowInForce = <<"source", ",", " ", "Author", ",", "license">>
  /\ DOMAIN last.node.attrs = Fields
  /\ PartFields = <<"author", "license", "source">>
  /\ last.display.kind = "span"

\* C13: a non-empty renderer output is attached where the placement says: stored
\* on the figure for caption, with the node list unchanged; immediately before
\* the figure for margin; immediately after it for admonition; and the placement
\* is one of caption, admonition, margin, hide
C13_AttachedByPlacement ==
  (last.outcome = "ok") =>
    /\ PlacementInForce \in {<<"caption">>, <<"admonition">>, <<"margin">>, <<"hide">>}
    /\ last.display.kind # "empty" =>
         /\ PlacementInForce = <<"caption">> =>
              last.node.license_html = last.display /\ last.returned = <<"figure">>
         /\ PlacementInForce = <<"margin">> =>
              last.node.license_html = NoDisplay /\ last.returned = <<"display", "figure">>
         /\ PlacementInForce = <<"admonition">> =>
              last.node.license_html = NoDisplay /\ last.returned = <<"figure", "display">>

----------------------------------------------------------------------------
(* Properties of the license registry *)

\* the keys of the URL table
UrlKeys == { p[1] : p \in LICENSE_URLS }

\* the recognized licenses without a canonical URL
NonUrlLicenses == { <<"Proprietary">>, <<"All", " ", "Rights", " ", "Reserved">> }

\* C14: every key of the URL table is a recognized license, every recognized
\* license is a key of the URL table or one of the fixed licenses without URL, and
\* no license with a canonical URL is reported as unrecognized
C14_TablesAgree ==
  /\ UrlKeys \subseteq VALID_LICENSES
  /\ VALID_LICENSES \subseteq (UrlKeys \cup NonUrlLicenses)
  /\ (PastArgumentCheck /\ Truthy(LicenseCandidate)
        /\ untranslate_license(LicenseCandidate.v) \in UrlKeys) =>
       (LicenseWarnings = 0 /\ last.exc \notin LicenseExceptions)

----------------------------------------------------------------------------
(* Determinism of the resolution *)

\* the dates the clock may show at a resolution
Clock == {DATE_OK, TODAY}

\* the last call resolved again, with the same directive, page defaults,
\* configuration and bibliography, when the clock shows date t
Rerun(t) ==
  Run(last.has_argument, last.content, last.options, last.doc, last.page_defaults,
      config, bib_content, t)

\* the date of the last call comes from the "today" sentinel
DateFromSentinel ==
  FirstNonEmpty(DocLayers("date") \o
    (IF Settings.date.substitute_missing
     THEN <<Some(Settings.date.default_date)>> ELSE <<>>)) = Some(<<"today">>)

\* C15 as stated: a second resolution with identical options, bibliography, page
\* defaults, settings and config yields identical author, license, date,
\* copyright and source, also when the date comes from the "today" sentinel
C15_Deterministic ==
  last.outcome = "ok" =>
    \A t \in Clock :
      Rerun(t).outcome = "ok" /\ Rerun(t).node.attrs = last.node.attrs

\* C15 amended: a second resolution with identical inputs yields identical values
\* when the clock shows the same date, and whatever the clock shows when the date
\* does not come from the "today" sentinel
C15_DeterministicGivenClock ==
  PastArgumentCheck =>
    /\ Rerun(today).outcome = last.outcome /\ Rerun(today).node = last.node
    /\ ~DateFromSentinel =>
         \A t \in Clock :
           Rerun(t).outcome = last.outcome /\ Rerun(t).node = last.node

\* a figure whose date and copyright come from the sentinel: resolved on another
\* day it carries another date and another copyright year
C15_Witness ==
  /\ last.outcome = "ok"
  /\ DateFromSentinel
  /\ Attr("date") = Some(today)
  /\ Attr("copyright") = Some(<<"(c)", " ", "2025", " ", "Team">>)
  /\ \E t \in Clock : Rerun(t).node.attrs["copyright"] # last.node.attrs["copyright"]

----------------------------------------------------------------------------
(* Generated bibliography entries *)

\* text.split("\n")
RECURSIVE SplitLines(_, _)
SplitLines(text, line) ==
  IF text = <<>> THEN <<line>>
  ELSE IF Head(text) = "\n" THEN <<line>> \o SplitLines(Tail(text), <<>>)
  ELSE SplitLines(Tail(text), Append(line, Head(text)))

\* the field a line of an entry gives, "" for the opening and closing lines
LineField(line) ==
  IF Len(line) >= 8 /\ line[1] = "  " /\ SubSeq(line, 3, 6) = <<" ", "=", " ", "{">>
        /\ SubSeq(line, Len(line) - 1, Len(line)) = <<"}", ",">>
  THEN line[2] ELSE ""

\* the value between the braces of a field line
LineValue(line) == SubSeq(line, 7, Len(line) - 2)

\* the lines of an entry that give the field
FieldLines(entry, field) ==
  LET lines == SplitLines(entry, <<>>)
  IN { i \in 1..Len(lines) : LineField(lines[i]) = field }

\* the value of the only line of the entry that gives the field
FieldValue(entry, field) ==
  LineValue(SplitLines(entry, <<>>)[CHOOSE i \in FieldLines(entry, field) : TRUE])

\* the record field each line of an entry comes from
RecordFieldOf ==
  [ author |-> "author", year |-> "date", date |-> "date", url |-> "source",
    howpublished |-> "source", note |-> "license", copyright |-> "copyright" ]

\* the iterations of the last pass that generated an entry
Generated == { i \in 1..Len(wlog) : wlog[i].step = "generated" }

\* C16: a generated entry starts with "@misc{key,", has exactly one title line,
\* has an author, year, date, url, howpublished, note or copyright line only when
\* the record field it comes from is present and non-empty, and for a date has the
\* year and date lines when it parses as YYYY-MM-DD and the year line only when
\* it does not
C16_FieldLinesOnlyForPresentFields ==
  \A i \in Generated :
    LET r == wlog[i]
        lines == SplitLines(r.entry, <<>>)
    IN /\ lines[1] = <<"@misc{">> \o r.key \o <<",">>
       /\ lines[Len(lines)] = <<"}">>
       /\ Cardinality(FieldLines(r.entry, "title")) = 1
       /\ \A f \in DOMAIN RecordFieldOf :
            FieldLines(r.entry, f) # {} => Has(r.options, RecordFieldOf[f])
       /\ \A j \in 2..(Len(lines) - 1) :
            LineField(lines[j]) \in DOMAIN RecordFieldOf \cup {"title"}
       /\ Has(r.options, "date") =>
            /\ Cardinality(FieldLines(r.entry, "year")) = 1
            /\ IF strptime(r.options["date"]).ok
               THEN /\ FieldValue(r.entry, "year") = <<strptime(r.options["date"]).year>>
                    /\ Cardinality(FieldLines(r.entry, "date")) = 1
                    /\ FieldValue(r.entry, "date") = r.options["date"]
               ELSE /\ FieldValue(r.entry, "year") = r.options["date"]
                    /\ FieldLines(r.entry, "date") = {}

\* a pass generated the entry of a figure with license MIT and date 2024-03-05
\* and no author or source, and the entry of a figure whose date does not parse
C16_Witness ==
  /\ \E i \in Generated :
       /\ Has(wlog[i].options, "license") /\ ~Has(wlog[i].options, "author")
       /\ ~Has(wlog[i].options, "source")
       /\ FieldValue(wlog[i].entry, "year") = <<"2024">>
       /\ FieldValue(wlog[i].entry, "date") = DATE_OK
       /\ FieldValue(wlog[i].entry, "note") = <<"License:", " ">> \o MIT
       /\ FieldValue(wlog[i].entry, "title") = <<"Fig">>
       /\ FieldLines(wlog[i].entry, "author") = {}
       /\ FieldLines(wlog[i].entry, "howpublished") = {}
  /\ \E j \in Generated :
       /\ Has(wlog[j].options, "date") /\ ~strptime(wlog[j].options["date"]).ok
       /\ FieldValue(wlog[j].entry, "year") = DATE_BAD
       /\ FieldLines(wlog[j].entry, "date") = {}

\* the bibliography text the pass loaded before its first iteration
LoadedText == wlog[1].loaded

\* the iterations of the last pass that wrote an entry to the output file
Written == { i \in 1..Len(wlog) : wlog[i].after # wlog[i].before }

\* C17: the pass generates or writes no entry for a key that has an entry in the
\* loaded bibliography text, whatever fields that entry contains, and writes at
\* most one entry for a key
C17_GeneratedOnlyForNewKeys ==
  /\ \A i \in 1..Len(wlog) :
       FindEntry(LoadedText, wlog[i].key).found => i \notin Generated \cup Written
  /\ \A i, j \in Written : wlog[i].key = wlog[j].key => i = j

----------------------------------------------------------------------------
(* Concurrent writers *)

\* the entries of the key in the text
EntryOpenings(text, key) ==
  { i \in 1..Len(text) : IsEntryHead(text[i]) /\ KeyComma(text, i, key) > 0 }

\* C18: when two calls on the output file have returned, however their read and
\* write steps interleaved, the file holds an entry of the key of each when the
\* keys differ and exactly one entry of the key when they are equal
C18_AtomicCheckAndAppend ==
  \A v, w \in Writers :
    (v # w /\ writers[v].pc = "done" /\ writers[w].pc = "done") =>
       IF LowerSeq(writers[v].bib_key) # LowerSeq(writers[w].bib_key)
       THEN /\ EntryOpenings(out_file.text, writers[v].bib_key) # {}
            /\ EntryOpenings(out_file.text, writers[w].bib_key) # {}
       ELSE Cardinality(EntryOpenings(out_file.text, writers[v].bib_key)) = 1

----------------------------------------------------------------------------
(* Bibliography entries read by a figure *)

\* the fields of an entry in their order: [name, value], value being the text
\* between the delimiters without surrounding whitespace
RECURSIVE FieldsOf(_, _)
FieldsOf(s, p) ==
  IF p > Len(s) THEN <<>>
  ELSE IF MatchField(s, p).ok
    THEN <<[name |-> MatchField(s, p).name, value |-> MatchField(s, p).value]>>
         \o FieldsOf(s, MatchField(s, p).end + 1)
  ELSE FieldsOf(s, p + 1)

\* the key the last figure gave with :bib:, and its entry in the bibliography
BibKey == Get(last.options, "bib")
BibEntry == FindEntry(bib_content, BibKey.v)
BibFields == FieldsOf(BibEntry.content, 1)
Named(name) == SelectSeq(BibFields, LAMBDA f : f.name = name)

\* the last figure looked its key up in the bibliography
LookedUp ==
  /\ PastArgumentCheck /\ Truthy(BibKey)
  /\ Settings.bib.extract_metadata /\ bib_content # <<>>

\* what _parse_bib_entry returns for the key of the last figure
Parsed == _parse_bib_entry(bib_content, BibKey.v)

\* C19: _parse_bib_entry returns none or a partial record and never raises,
\* whatever the bibliography text and the key, also for fields with empty values
\* in braces or quotes; the figure that looks a key up ends without a TypeError
C19_ParseNeverRaises ==
  LookedUp => (~Parsed.raised /\ last.exc # "TypeError")

\* C20: when the entry has a date field the record's date is that field's value
\* verbatim, whatever the order of the date and year fields, and when it has a
\* year field and no date field the record's date is the year followed by -01-01
C20_DateOverYear ==
  (LookedUp /\ BibEntry.found /\ ~Parsed.raised) =>
    IF Named("date") # <<>>
    THEN /\ Parsed.found
         /\ GetOpt(Parsed.metadata, "date") = Named("date")[Len(Named("date"))].value
         /\ last.bib_metadata = Parsed.metadata
    ELSE IF Named("year") # <<>>
    THEN /\ Parsed.found
         /\ Parsed.metadata["date"] =
              Some((IF Named("year")[1].value.some THEN Named("year")[1].value.v ELSE <<>>)
                   \o <<"-", "01", "-", "01">>)
         /\ last.bib_metadata = Parsed.metadata
    ELSE "date" \notin DOMAIN Parsed.metadata

\* the value of the only field of the entry with the name, as written
Only(name) == Named(name)[1].value

\* a howpublished value without \url{...}
PlainHowpublished ==
  Len(Named("howpublished")) = 1 /\
  (Only("howpublished").some => ~UrlMatch(Only("howpublished").v).ok)

\* C21: a howpublished value containing \url{u} sets the source to u; one without
\* \url is the source, verbatim, only when no url field set it, so an entry with a
\* url field and a plain howpublished field has the url value as its source in
\* either order of the two; a url field alone sets the source verbatim
C21_SourceFromUrlOrHowpublished ==
  (LookedUp /\ BibEntry.found /\ Len(Named("url")) <= 1 /\ Len(Named("howpublished")) <= 1) =>
    /\ ~Parsed.raised
    /\ (Len(Named("howpublished")) = 1 /\ ~PlainHowpublished /\ Named("url") = <<>>) =>
         GetOpt(Parsed.metadata, "source") = Some(UrlMatch(Only("howpublished").v).url)
    /\ (Len(Named("url")) = 1 /\ PlainHowpublished) =>
         GetOpt(Parsed.metadata, "source") = Only("url")
    /\ (Len(Named("url")) = 1 /\ Named("howpublished") = <<>>) =>
         GetOpt(Parsed.metadata, "source") = Only("url")
    /\ (Named("url") = <<>> /\ PlainHowpublished) =>
         GetOpt(Parsed.metadata, "source") = Only("howpublished")

----------------------------------------------------------------------------
(* Copyright substitution *)

\* the copyright composed from an author and a date: the year is the first
\* component of the date
AuthorYear(author, date) ==
  IF Truthy(author) /\ Truthy(date)
  THEN Some(<<"(c)", " ", Head(date.v), " ">> \o author.v)
  ELSE IF Truthy(author) THEN Some(<<"(c)", " ">> \o author.v)
  ELSE IF Truthy(date) THEN Some(<<"(c)", " ", Head(date.v)>>)
  ELSE None

\* the last figure has no copyright at the explicit, bibliography and page
\* layers, and substitution is on
CopyrightSubstituted ==
  /\ PastArgumentCheck /\ last.exc \notin ({"TypeError"} \cup LicenseExceptions)
  /\ ~Truthy(FirstNonEmpty(DocLayers("copyright")))
  /\ Settings.copyright.substitute_missing

\* C22: the substituted copyright is derived from the resolved author and date:
\* authoryear composes them, config is the copyright of conf.py,
\* authoryear-config and config-authoryear take the first non-empty of the two in
\* that order, any other string is the value itself
C22_CopyrightSubstitution ==
  CopyrightSubstituted =>
    /\ last.outcome = "ok"
    /\ Attr("copyright") =
         Kept(LET strategy == Settings.copyright.default_copyright
                  ay == AuthorYear(ExpectedAuthor, ExpectedDate)
              IN CASE strategy = <<"authoryear">> -> ay
                   [] strategy = <<"config">> -> config.copyright
                   [] strategy = <<"authoryear-config">> -> Or(ay, config.copyright)
                   [] strategy = <<"config-authoryear">> -> Or(config.copyright, ay)
                   [] OTHER -> Some(strategy))
----------------------------------------------------------------------------
(* Captions and numbering *)

\* the last call rendered its attribution for the caption
CaptionDisplay == last.outcome = "ok" /\ last.display.kind = "span"

\* the figure node carries a caption with text, as a child or as the original
\* caption kept under :nonumber:
RealCaption == last.node.caption = "text" \/ last.node.original_caption = "text"

\* C23: in caption placement the markup starts with a line break exactly when the
\* figure carries a real caption (a numbered caption with text, or the original
\* caption kept under :nonumber:); a figure without caption text, the one
\* numbered through :number: with the placeholder caption included, gets none
C23_LineBreakIffRealCaption ==
  CaptionDisplay => (last.display.br <=> RealCaption)

\* the documents whose doctree has been resolved
ResolvedDocs == { d \in Docs : resolved.passes[d] > 0 }

\* the figure node carries caption-placement attribution or a stored original caption
NeedsCaption(node) == node.license_html # NoDisplay \/ node.original_caption # "none"

\* the i-th figure of document d as the read left it, and as the passes left it
AsRead(d, i) == doctree[d][i]
AsResolved(d, i) == resolved.tree[d][i]

\* C24: after add_unnumbered_caption has run over a doctree, every figure with
\* license_html or a stored original caption has a caption child: the original
\* caption restored, else an empty caption added; figures that had a caption and
\* figures with neither attribute are unchanged; a second pass adds nothing
C24_CaptionAdded ==
  \A d \in ResolvedDocs :
    /\ Len(resolved.tree[d]) = Len(doctree[d])
    /\ \A i \in 1..Len(doctree[d]) :
         LET node == AsRead(d, i)
             after == AsResolved(d, i)
         IN /\ NeedsCaption(node) => after.figure.caption # "none"
            /\ after.figure =
                 [ node EXCEPT !.caption =
                     IF ~NeedsCaption(node) \/ node.caption # "none" THEN node.caption
                     ELSE IF node.original_caption # "none" THEN node.original_caption
                     ELSE "empty" ]
            /\ (~NeedsCaption(node) \/ node.caption # "none") => after = Unresolved(node)
    /\ add_unnumbered_caption(resolved.tree[d], resolved.serial).tree = resolved.tree[d]

\* a doctree resolved twice in which an empty caption was added to a figure
C24_Witness ==
  /\ resolved.passes["d1"] = MaxResolves
  /\ \E i \in 1..Len(doctree["d1"]) :
       /\ AsRead("d1", i).caption = "none" /\ AsRead("d1", i).license_html # NoDisplay
       /\ AsResolved("d1", i).figure.caption = "empty"

\* the numbering flags given to the last directive
Given(flag) == flag \in DOMAIN last.options

\* the flag in effect: the only one given, or the one that survives the conflict
NonumberInEffect == Given("nonumber") /\ (Given("number") => last.content # "none")
NumberInEffect == Given("number") /\ (Given("nonumber") => last.content = "none")

\* the figure has a caption: its content, or the placeholder made for :number:
HasCaption == last.content # "none" \/ NumberInEffect

\* C30: of :number: and :nonumber: given together exactly one survives, :nonumber:
\* when there is caption content and :number: otherwise; the figure is numbered
\* (unnumbered_caption false) exactly when it has a caption, real or placeholder,
\* and :nonumber: is not in effect; under :nonumber: the caption is removed from
\* the figure, kept as original_caption and restored when the doctree is resolved
C30_NumberingFlags ==
  /\ last.outcome = "ok" =>
       /\ DOMAIN NumberingOptions(last.options, last.content).options =
            (DOMAIN last.options) \
              ( (IF NumberInEffect THEN {} ELSE {"number"}) \cup
                (IF NonumberInEffect THEN {} ELSE {"nonumber"}) )
       /\ ~(NumberInEffect /\ NonumberInEffect)
       /\ (Given("number") \/ Given("nonumber")) => (NumberInEffect \/ NonumberInEffect)
       /\ ~last.node.unnumbered_caption <=> (HasCaption /\ ~NonumberInEffect)
       /\ (NonumberInEffect /\ last.content # "none") =>
            /\ last.node.caption = "none"
            /\ last.node.original_caption = last.content
       /\ ~NonumberInEffect =>
            /\ last.node.original_caption = "none"
            /\ last.node.caption = IF last.content # "none" THEN last.content
                                   ELSE IF NumberInEffect THEN "placeholder" ELSE "none"
  /\ \A d \in ResolvedDocs : \A i \in 1..Len(doctree[d]) :
       AsRead(d, i).original_caption # "none" =>
         AsResolved(d, i).figure.caption = AsRead(d, i).original_caption

\* a figure given both flags and a caption, unnumbered, its caption restored
C30_Witness ==
  /\ last.outcome = "ok" /\ Given("number") /\ Given("nonumber")
  /\ last.content = "text" /\ last.node.unnumbered_caption
  /\ resolved.passes["d1"] > 0 /\ Len(doctree["d1"]) = 1
  /\ AsRead("d1", 1) = last.node
  /\ AsResolved("d1", 1).figure.caption = "text"

----------------------------------------------------------------------------
(* Sequences of writes to the generated bibliography file *)

\* every call made so far returned True
AllSucceeded == \A i \in 1..Len(wlog) : wlog[i].result

\* the call left the file as it was or appended to it
OnlyAppended(i) == StartsWith(wlog[i].after.text, wlog[i].before.text)

\* the file holds at most one entry opening of each key
AtMostOneOpeningPerKey ==
  \A k \in WriteKeys : Cardinality(EntryOpenings(out_file.text, k)) <= 1

\* the entry is one entry, that of the key
KeyedEntry(bib_entry, bib_key) ==
  /\ OpensWith(bib_entry, bib_key)
  /\ Cardinality({ i \in 1..Len(bib_entry) : IsEntryHead(bib_entry[i]) }) = 1

\* C25 as stated: after any sequence of successful calls, with any keys and any
\* entries, on a file that had no duplicate keys, the file holds at most one
\* entry opening per key, and every call left the file unchanged or appended to it
C25_NoDuplicateKeys ==
  AllSucceeded =>
    /\ AtMostOneOpeningPerKey
    /\ \A i \in 1..Len(wlog) : OnlyAppended(i)

\* C25 amended: the same for sequences of calls whose entries are the entry of
\* their key
C25_NoDuplicateKeysForKeyedEntries ==
  (AllSucceeded /\ \A i \in 1..Len(wlog) : KeyedEntry(wlog[i].entry, wlog[i].key)) =>
    /\ AtMostOneOpeningPerKey
    /\ \A i \in 1..Len(wlog) : OnlyAppended(i)

\* three successful calls with keyed entries: one appended the entry of k2, one
\* found the entry K1 of the file for the key k1, one found the entry appended
C25_Witness ==
  /\ Len(wlog) = 3 /\ AllSucceeded
  /\ \A i \in 1..3 : KeyedEntry(wlog[i].entry, wlog[i].key)
  /\ \E i, j, k \in 1..3 :
       /\ wlog[i].after # wlog[i].before /\ wlog[i].before.text # <<>>
       /\ wlog[j].key = <<"k1">> /\ wlog[j].after = wlog[j].before
       /\ i < k /\ wlog[k].key = wlog[i].key /\ wlog[k].after = wlog[k].before

----------------------------------------------------------------------------
(* The display form of licenses *)

\* the last figure was given a license of its own and resolved
LicenseGiven == last.outcome = "ok" /\ Truthy(Get(last.options, "license"))

\* the license given and the display form stored on the figure node
GivenLicense == Get(last.options, "license").v
StoredLicense == Attr("license").v

\* C26: under identity localization the display normalization ("CC-" to "CC ",
\* " 4.0" appended to a value starting with "CC " without digit) is idempotent,
\* and for every recognized key its result is recognized again and, when the key
\* has a URL, has the same URL
C26_DisplayFormStable ==
  LicenseGiven =>
    /\ Attr("license").some
    /\ DisplayLicense(config.language, StoredLicense) = StoredLicense
    /\ GivenLicense \in VALID_LICENSES => StoredLicense \in VALID_LICENSES
    /\ (GivenLicense \in VALID_LICENSES /\ LicenseUrl(GivenLicense) # <<>>) =>
         LicenseUrl(StoredLicense) = LicenseUrl(GivenLicense)

\* a recognized key with a URL whose display form differs from it
C26_Witness ==
  /\ LicenseGiven
  /\ GivenLicense = <<"CC", "-", "BY", "-", "NC", "-", "SA">>
  /\ StoredLicense = <<"CC", " ", "BY", "-", "NC", "-", "SA", " ", "4.0">>
  /\ LicenseUrl(GivenLicense) # <<>>

----------------------------------------------------------------------------
(* Generation followed by parsing *)

\* the iterations of the pass that generated an entry
GeneratedEntries == { i \in 1..Len(wlog) : wlog[i].step = "generated" }

\* the record the entry of iteration i was generated from
RecordOf(i) ==
  [ k \in { f \in MetadataFields \cap DOMAIN wlog[i].options : wlog[i].options[f] # <<>> }
      |-> Some(wlog[i].options[k]) ]

\* the entry of iteration i parsed under its key
ParsedBack(i) == _parse_bib_entry(wlog[i].entry, wlog[i].key)

\* the record has a date in YYYY-MM-DD format, if any, and a source that is a URL
\* or plain text, if any
RoundTripInput(i) ==
  LET record == RecordOf(i)
  IN /\ "date" \in DOMAIN record => strptime(record["date"].v).ok
     /\ "source" \in DOMAIN record =>
          (IsHttp(record["source"].v) \/ record["source"].v[1] # "[")

\* C27: for every key and every record with a date in YYYY-MM-DD format and a
\* source that is a URL or plain text, parsing the generated entry under its key
\* returns exactly the author, license, date, copyright and source of the record
C27_RoundTrip ==
  \A i \in GeneratedEntries :
    RoundTripInput(i) =>
      /\ ~ParsedBack(i).raised
      /\ ParsedBack(i).found
      /\ ParsedBack(i).metadata = RecordOf(i)

----------------------------------------------------------------------------
(* Frame of the page-default operations *)

\* the entry of document d is the same before and after the step
EntryKept(d) ==
  /\ (d \in DOMAIN page_defaults') = (d \in DOMAIN page_defaults)
  /\ d \in DOMAIN page_defaults => page_defaults'[d] = page_defaults[d]

\* C28: clear_page_defaults(docnames) removes exactly the entries of the documents
\* in docnames and keeps every other entry; a default-metadata-page directive in
\* document d changes the entry of d only; a figure of document d resolves with
\* the entry of d and of no other document
C28_OwnEntryOnly ==
  [][ /\ builds' # builds =>
           /\ \A d \in toread' : d \notin DOMAIN page_defaults'
           /\ \A d \in Docs \ toread' : EntryKept(d)
      /\ ndirectives' = ndirectives + 1 =>
           /\ \A d \in Docs \ {docname} : EntryKept(d)
           /\ docname \in DOMAIN page_defaults'
      /\ (builds' = builds /\ ndirectives' # ndirectives + 1) =>
           page_defaults' = page_defaults
      /\ (last' # last /\ last'.outcome # "none") =>
           /\ last'.doc = docname
           /\ last'.page_defaults = PageDefaultsOf(page_defaults, docname) ]_vars

\* in a second build that reads d1 only, the defaults of d2 are kept and a
\* figure of d1 is resolved without defaults while d2 has some
C28_Witness ==
  /\ builds = 2 /\ docname = "d1"
  /\ "d2" \in DOMAIN page_defaults /\ "d1" \notin DOMAIN page_defaults
  /\ stored["d1"].before # EmptyDict
  /\ last.outcome = "ok" /\ last.doc = "d1" /\ last.page_defaults = EmptyDict

\* the entry of the current document after a directive with the given options:
\* the options of the directive over those the entry held
Accumulated(options) ==
  LET old == PageDefaultsOf(page_defaults, docname)
  IN [ k \in (DOMAIN old) \cup (DOMAIN options) |->
         IF k \in DOMAIN options THEN options[k] ELSE old[k] ]

\* C29: the default-metadata-page directives of one read of a document
\* accumulate: after each, an option has the value of the last directive that
\* set it, and the options only earlier directives set are retained
C29_DirectivesAccumulate ==
  [][ ndirectives' = ndirectives + 1 =>
        \E options \in LifecyclePageOptions :
          /\ docname \in DOMAIN page_defaults'
          /\ page_defaults'[docname] = Accumulated(options) ]_vars

\* two directives in one read: the license of the second over that of the
\* first, the author of the first retained
C29_Witness ==
  /\ docname = "d1" /\ ndirectives = 2
  /\ PageDefaultsOf(page_defaults, "d1") = [ license |-> MIT, author |-> <<"Paul">> ]

====
